---- MODULE Spec2Model ----
(***************************************************************************)
(* A model of the traffic plugins of relay-core:                           *)
(*   - the content enricher        (content-enricher-plugin.go),           *)
(*   - the segment-proxy plugin that rewrites the request in flight        *)
(*     (segment_proxy_plugin.go),                                          *)
(*   - the segment-proxy plugin that fans out side-effect POSTs            *)
(*     (segment_proxy_plugin_test.go, lines 185-373),                      *)
(*   - the content blocker and the cookies plugin, whose code is not in    *)
(*     the repository's sources and which follow the specification and     *)
(*     the tests of cookies-plugin_test.go.                                *)
(* A request is handled in a slot; the plugin instance is shared by all    *)
(* slots.  Bodies are modelled down to what the code can tell apart: the   *)
(* wire encoding of the bytes, the JSON document they carry, and their     *)
(* length.                                                                 *)
(***************************************************************************)
EXTENDS Integers, Sequences, FiniteSets, TLC

\* ------------------------------------------------------------------ bounds

\* The longest Evts list of a bundle body.
MaxEvts == 3

\* The most plugins loaded into a relay's pipeline.
MaxPlugins == 2

\* The most rules of one kind of content in a content blocker's configuration.
MaxRules == 2

\* The most cookies in one Cookie header.
MaxCookies == 2

\* ------------------------------------------------------- program constants

navigateEvent == 37
StatusInternalServerError == 500
StatusServiceUnavailable == 503
clientTimeoutSeconds == 10

PluginVersionHeaderName == "X-Relay-Content-Enricher-Version"
RelayRelease == "v0.3.1"

\* relay.target of the relay's configuration: the upstream the relay forwards to.
RelayTarget == [Scheme |-> "https", Host |-> "upstream.example"]

\* ----------------------------------------------------------- JSON documents

\* A decoded body text.  kind says what encoding/json sees in it; for an
\* object, obj holds its string-valued members, evtsKind/evts its "Evts"
\* member, and canon tells whether the text is byte for byte what json.Marshal
\* writes for the object (sorted keys, no white space).
EmptyObj == [k \in {} |-> ""]

Doc(kind, obj, canon, evtsKind, evts) ==
    [kind |-> kind, obj |-> obj, canon |-> canon, evtsKind |-> evtsKind, evts |-> evts]

EmptyText == Doc("empty", EmptyObj, TRUE, "absent", <<>>)
InvalidText == Doc("invalid", EmptyObj, TRUE, "absent", <<>>)
NullText == Doc("null", EmptyObj, TRUE, "absent", <<>>)
ArrayText == Doc("array", EmptyObj, TRUE, "absent", <<>>)

\* The raw JSON of an event's Args: a list of strings (an empty one too), or
\* something that is no list of strings.
ArgsList(l) == [kind |-> "strings", list |-> l]
ArgsNotList == [kind |-> "notlist", list |-> <<>>]

\* type Event struct { Kind int; Args json.RawMessage; When int }
Event(kind, args) == [Kind |-> kind, Args |-> args]

\* Sum of f[x] over a finite set.
RECURSIVE SumOver(_, _)
SumOver(S, f) ==
    IF S = {} THEN 0
    ELSE LET x == CHOOSE y \in S : TRUE IN f[x] + SumOver(S \ {x}, f)

RECURSIVE SumSeq(_)
SumSeq(s) == IF s = <<>> THEN 0 ELSE Head(s) + SumSeq(Tail(s))

\* Bytes of one "key":"value" member.
MemberLen(k, v) == Len(k) + Len(v) + 5

ArgsLen(a) ==
    CASE a.kind = "notlist" -> 9
      [] OTHER -> 9 + SumSeq([i \in 1..Len(a.list) |-> Len(a.list[i]) + 3])

EventLen(e) == 12 + ArgsLen(e.Args)

\* The byte length of a text.
TextLen(t) ==
    CASE t.kind = "empty" -> 0
      [] t.kind = "invalid" -> 7
      [] t.kind = "null" -> 4
      [] t.kind = "array" -> 2
      [] OTHER ->
           2 + SumOver(DOMAIN t.obj, [k \in DOMAIN t.obj |-> MemberLen(k, t.obj[k]) + 1])
             + (IF t.evtsKind = "absent" THEN 0
                ELSE 9 + SumSeq([i \in 1..Len(t.evts) |-> EventLen(t.evts[i]) + 1]))
             + (IF t.canon THEN 0 ELSE 1)

\* ------------------------------------------------------------------- bytes

\* Body bytes: a text as it stands (identity), its gzip stream, or a gzip
\* stream whose header is sound and whose data is cut short.
Plain(t) == [enc |-> "identity", text |-> t]
Gz(t) == [enc |-> "gzip", text |-> t]
GzCorrupt == [enc |-> "gzip-corrupt", text |-> InvalidText]
NoBytes == Plain(EmptyText)

\* The length of the bytes; a gzip stream carries an 18-byte header and trailer.
ByteLen(b) ==
    CASE b.enc = "identity" -> TextLen(b.text)
      [] b.enc = "gzip" -> TextLen(b.text) + 18
      [] OTHER -> 18

\* gzip.NewReader(bytes.NewReader(b)) followed by io.ReadAll(reader).
\* newErr: the header is not gzip's; readErr: the data is corrupt.
GzipReadAll(b) ==
    CASE b.enc = "gzip" -> [newErr |-> FALSE, readErr |-> FALSE, bytes |-> Plain(b.text)]
      [] b.enc = "gzip-corrupt" -> [newErr |-> FALSE, readErr |-> TRUE, bytes |-> NoBytes]
      [] OTHER -> [newErr |-> TRUE, readErr |-> FALSE, bytes |-> NoBytes]

\* ------------------------------------------------------------ body streams

\* request.Body: nil, http.NoBody, or a reader that yields avail and then ends
\* with EOF (fail = FALSE) or with a read error (fail = TRUE).
NilBody == [state |-> "nil", avail |-> NoBytes, fail |-> FALSE]
NoBody == [state |-> "nobody", avail |-> NoBytes, fail |-> FALSE]
Stream(b, fail) == [state |-> "stream", avail |-> b, fail |-> fail]

\* io.NopCloser(bytes.NewBuffer(b)): a fresh reader over b.
NewBuffer(b) == Stream(b, FALSE)

\* io.ReadAll(body): the bytes read, the error, and the reader left behind.
ReadAll(body) ==
    [bytes |-> body.avail, err |-> body.fail,
     rest |-> [body EXCEPT !.avail = NoBytes]]

\* ----------------------------------------------------------- encoding/json

\* json.Unmarshal(b, &jsonBody) for jsonBody map[string]interface{}.
\* JSON null is no error and leaves the map nil.
UnmarshalMap(b) ==
    IF b.enc # "identity" \/ b.text.kind \in {"empty", "invalid", "array"}
    THEN [err |-> TRUE, isNil |-> TRUE, text |-> b.text]
    ELSE [err |-> FALSE, isNil |-> b.text.kind = "null", text |-> b.text]

\* json.Marshal of a map: sorted keys, no white space.
Marshal(t) == Plain([t EXCEPT !.canon = TRUE])

\* json.Unmarshal(b, &segmentData) for segmentData SegmentData.
\* JSON null is no error and leaves the struct zero.
UnmarshalSegmentData(b) ==
    IF \/ b.enc # "identity"
       \/ b.text.kind \in {"empty", "invalid", "array"}
       \/ b.text.kind = "object" /\ b.text.evtsKind = "badtype"
    THEN [err |-> TRUE, WriteKey |-> "", Evts |-> <<>>]
    ELSE [err |-> FALSE,
          WriteKey |-> IF "writeKey" \in DOMAIN b.text.obj THEN b.text.obj["writeKey"] ELSE "",
          Evts |-> b.text.evts]

\* json.Unmarshal(event.Args, &args) for args []string.
UnmarshalArgs(a) ==
    IF a.kind = "strings" THEN [err |-> FALSE, args |-> a.list]
    ELSE [err |-> TRUE, args |-> <<>>]

\* ---------------------------------------------------------------- headers

HeaderNames ==
    {"Content-Type", "Content-Encoding", "Content-Length", "X-Original-Header",
     "Newhead", PluginVersionHeaderName,
     "Upgrade", "X-Forwarded-For", "X-Forwarded-Port", "X-Forwarded-Proto", "X-Relay-Version",
     "Cookie", "X-Relay-Content-Blocker-Version"}

\* textproto.CanonicalMIMEHeaderKey on the names the model uses.
CanonicalMIMEHeaderKey(n) ==
    CASE n = "newhead" -> "Newhead"
      [] n = "NewHead" -> "Newhead"
      [] OTHER -> n

NoHeaders == [n \in HeaderNames |-> <<>>]

\* http.Header.Get: the first value, "" when there is none.
HeaderGet(h, n) ==
    LET c == CanonicalMIMEHeaderKey(n) IN IF h[c] = <<>> THEN "" ELSE h[c][1]

\* http.Header.Set: the value replaces all values.
HeaderSet(h, n, v) == [h EXCEPT ![CanonicalMIMEHeaderKey(n)] = <<v>>]

\* http.Header.Add: the value is appended.
HeaderAdd(h, n, v) == [h EXCEPT ![CanonicalMIMEHeaderKey(n)] = Append(@, v)]

\* ------------------------------------------------------------------- paths

\* A URL path is a sequence of pieces of text; strings.Contains is the search
\* for a contiguous run of pieces.
BundlePath == <<"/rec", "/bundle", "/v2">>
NestedBundlePath == <<"/api", "/v1", "/rec", "/bundle", "/v2", "/data">>
GluedBundlePath == <<"/rec", "/bundle", "/v2", "x">>
OtherPath == <<"/other", "/path">>
PagePath == <<"/v1", "/page">>
RootPath == <<"/">>

Paths == {BundlePath, NestedBundlePath, GluedBundlePath, OtherPath}

\* strings.Contains(path, needle)
Contains(path, needle) ==
    \E i \in 0..(Len(path) - Len(needle)) : SubSeq(path, i + 1, i + Len(needle)) = needle

\* ---------------------------------------------------------------- requests

\* *http.Request as a handler sees it.  Scheme and Host are those of
\* request.URL (empty for an origin-form request line); UserId and QueryCE are
\* the query parameters UserId and ContentEncoding.
MkRequest(method, scheme, host, path, userId, queryCE, header, body) ==
    LET n == ByteLen(body.avail) + (IF body.fail THEN 3 ELSE 0) IN
    [Method |-> method, Scheme |-> scheme, Host |-> host, Path |-> path,
     UserId |-> userId, QueryCE |-> queryCE, TLS |-> FALSE,
     Header |-> IF body.state = "stream"
                THEN [header EXCEPT !["Content-Length"] = <<ToString(n)>>]
                ELSE header,
     ContentLength |-> n,
     Body |-> body]

\* The bytes a later reader gets from the request's body.
Readable(req) == req.Body.avail

\* http.ResponseWriter: nothing written yet, or a status and an error text.
NoResponse == [written |-> FALSE, status |-> 0, text |-> ""]

\* http.Error(response, text, code)
httpError(text, code) == [written |-> TRUE, status |-> code, text |-> text]

\* ---------------------------------------------------- plugin configuration

BodyConfigs ==
    {EmptyObj,
     [k \in {"new-body-key"} |-> "enrich payload"],
     [k \in {"new-body-key", "zone"} |-> IF k = "zone" THEN "eu" ELSE "enrich payload"]}

HeaderConfigs ==
    {EmptyObj,
     [k \in {"newhead"} |-> "newvalue"],
     [k \in {"newhead", "NewHead"} |-> IF k = "newhead" THEN "newvalue" ELSE "othervalue"]}

\* contentEnricherPluginFactory.New: the plugin is loaded only with at least
\* one enrichment.
EnricherPlugins ==
    {[kind |-> "enricher", bodyEnrichments |-> b, headerEnrichments |-> h,
      clientTimeout |-> 0] :
        b \in BodyConfigs, h \in HeaderConfigs}
    \ {[kind |-> "enricher", bodyEnrichments |-> EmptyObj, headerEnrichments |-> EmptyObj,
        clientTimeout |-> 0]}

\* segmentProxyPluginFactory.New of segment_proxy_plugin.go
RewritePlugin ==
    [kind |-> "rewrite", bodyEnrichments |-> EmptyObj, headerEnrichments |-> EmptyObj,
     clientTimeout |-> 0]

\* segmentProxyPluginFactory.New of the fan-out plugin: a client with a timeout.
FanoutPlugin ==
    [kind |-> "fanout", bodyEnrichments |-> EmptyObj, headerEnrichments |-> EmptyObj,
     clientTimeout |-> clientTimeoutSeconds]

RECURSIVE SeqsUpTo(_, _)
SeqsUpTo(S, n) ==
    IF n = 0 THEN {<<>>}
    ELSE LET shorter == SeqsUpTo(S, n - 1) IN
         shorter \cup {Append(s, x) : s \in {t \in shorter : Len(t) = n - 1}, x \in S}

\* ----------------------------------------- content blocker: configuration

\* A regular expression is modelled by the pieces of text it matches; a text
\* is scanned as a sequence of pieces, each of them a match or a stretch
\* between matches.
IPv4Pattern == {"215.1.0.335", "192.168.0.1"}
FooBarPattern == {"foo", "bar"}

\* The texts the content blocker meets, cut into pieces.
BlockerPhrases ==
    {<<"Excluded IP address = ", "215.1.0.335", ".">>,
     <<"foo.com,", "192.168.0.1", ",bar.com">>,
     <<"foo", " ", "bar", " baz">>}

\* A rule: exclude or mask what a pattern matches.
BlockRule(kind, pattern) == [kind |-> kind, pattern |-> pattern]

BlockRules ==
    {BlockRule("exclude", IPv4Pattern), BlockRule("mask", IPv4Pattern),
     BlockRule("mask", FooBarPattern)}

\* The rule lists of a block-content section, as declared.
BlockRuleLists == SeqsUpTo(BlockRules, MaxRules)

\* The content blocker is loaded only with at least one rule.
BlockerPlugins ==
    {[kind |-> "blocker", bodyEnrichments |-> EmptyObj, headerEnrichments |-> EmptyObj,
      clientTimeout |-> 0, bodyRules |-> b, headerRules |-> h] :
        b \in BlockRuleLists, h \in BlockRuleLists}
    \ {[kind |-> "blocker", bodyEnrichments |-> EmptyObj, headerEnrichments |-> EmptyObj,
        clientTimeout |-> 0, bodyRules |-> <<>>, headerRules |-> <<>>]}

\* ------------------------------------------------- cookies: configuration

Cookie(name, value) == [Name |-> name, Value |-> value]

\* The cookies of TestRelayedCookies.
KnownCookies ==
    {Cookie("SPECIAL_ID", "298zf09hf012fh2"), Cookie("token", "u32t4o3tb3gg43"),
     Cookie("_gat", "1")}

\* The cookies of one Cookie header, in order.
CookieLists == SeqsUpTo(KnownCookies, MaxCookies)

\* cookies.allowlist and cookies.TRAFFIC_RELAY_COOKIES as the tests set them.
Allowlists == {<<>>, <<"SPECIAL_ID", "token", "_gat">>, <<"token">>}

RelayCookiesEnvs == {"", "SPECIAL_ID _gat", "_gat"}

CookiesPlugins ==
    {[kind |-> "cookies", bodyEnrichments |-> EmptyObj, headerEnrichments |-> EmptyObj,
      clientTimeout |-> 0, allowlist |-> a, TRAFFIC_RELAY_COOKIES |-> e] :
        a \in Allowlists, e \in RelayCookiesEnvs}

Plugins ==
    EnricherPlugins \cup {RewritePlugin, FanoutPlugin} \cup BlockerPlugins \cup CookiesPlugins

\* ------------------------------------------------------------------ inputs

EnricherObjs ==
    {[k \in S |-> IF k = "content" THEN "Original content" ELSE "client payload"] :
        S \in SUBSET {"content", "new-body-key"}}

EnricherTexts ==
    {EmptyText, InvalidText, NullText, ArrayText}
    \cup {Doc("object", o, c, "absent", <<>>) : o \in EnricherObjs, c \in BOOLEAN}

\* A read that fails delivers a document cut short.
FailingBody == Stream(Plain(InvalidText), TRUE)

EnricherBodies ==
    {NilBody, NoBody, FailingBody}
    \cup {Stream(Plain(t), FALSE) : t \in EnricherTexts}
    \cup {Stream(Gz(t), FALSE) : t \in EnricherTexts}

ClientHeaders ==
    {[NoHeaders EXCEPT !["X-Original-Header"] = <<"original value">>,
                       !["Content-Type"] = <<ct>>,
                       !["Newhead"] = nh,
                       ![PluginVersionHeaderName] = pv] :
        ct \in {"application/json", "text/plain"},
        nh \in {<<>>, <<"client value">>},
        pv \in {<<>>, <<"spoofed">>}}

\* The requests of runContentEnricherTest and their neighbours: a gzip body
\* comes with Content-Encoding: gzip.
EnricherRequests ==
    {MkRequest("POST", "", "", RootPath, "", "",
               IF b.avail.enc = "identity" THEN h
               ELSE [h EXCEPT !["Content-Encoding"] = <<"gzip">>],
               b) :
        h \in ClientHeaders, b \in EnricherBodies}

EventKinds ==
    {Event(navigateEvent, ArgsList(<<"https://example.com">>)),
     Event(navigateEvent, ArgsList(<<"https://example.org", "second">>)),
     Event(navigateEvent, ArgsList(<<>>)),
     Event(navigateEvent, ArgsNotList),
     Event(1, ArgsList(<<"other-event">>))}

WriteKeyObj == [k \in {"writeKey"} |-> "test-key"]

SegmentTexts ==
    {InvalidText, NullText, Doc("object", WriteKeyObj, TRUE, "badtype", <<>>)}
    \cup {Doc("object", WriteKeyObj, TRUE, "list", es) : es \in SeqsUpTo(EventKinds, MaxEvts)}

SegmentBodies ==
    {NilBody, NoBody, FailingBody, Stream(GzCorrupt, FALSE)}
    \cup {Stream(Plain(t), FALSE) : t \in SegmentTexts}
    \cup {Stream(Gz(t), FALSE) : t \in SegmentTexts}

UrlForms == {[Scheme |-> "", Host |-> ""], [Scheme |-> "http", Host |-> "example.com"]}

\* The requests of TestSegmentProxyPlugin and their neighbours.  The
\* Content-Encoding header and the ContentEncoding query parameter are chosen
\* independently of the body's encoding.
SegmentRequests ==
    {MkRequest("GET", u.Scheme, u.Host, p, "test-user", q,
               [NoHeaders EXCEPT !["Content-Encoding"] = ce,
                                 !["Content-Type"] = ct,
                                 !["X-Original-Header"] = <<"original value">>],
               b) :
        u \in UrlForms, p \in Paths, q \in {"", "gzip"}, ce \in {<<>>, <<"gzip">>},
        ct \in {<<>>, <<"text/plain">>}, b \in SegmentBodies}

\* The requests of runContentBlockerTest and TestBlockPluginBlocksWebsockets
\* and their neighbours.
BlockerTexts ==
    {Doc("object", [k \in {"content"} |-> v], FALSE, "absent", <<>>) :
        v \in {"Excluded IP address = 215.1.0.335.", "foo bar baz"}}

BlockerBodies ==
    {NoBody, FailingBody, Stream(GzCorrupt, FALSE)}
    \cup {Stream(Plain(t), FALSE) : t \in BlockerTexts}
    \cup {Stream(Gz(t), FALSE) : t \in BlockerTexts}

BlockerRequests ==
    {MkRequest("POST", "", "", RootPath, "", "",
               [NoHeaders EXCEPT !["Content-Type"] = <<ct>>,
                                 !["X-Forwarded-For"] = xff,
                                 !["Upgrade"] = up,
                                 !["Content-Encoding"] =
                                     IF b.avail.enc = "identity" THEN <<>> ELSE <<"gzip">>],
               b) :
        ct \in {"application/json", "image/png"},
        xff \in {<<>>, <<"foo.com,192.168.0.1,bar.com">>, <<"foo bar baz", "192.168.0.1">>},
        up \in {<<>>, <<"websocket">>},
        b \in BlockerBodies}

RECURSIVE JoinWith(_, _)
JoinWith(strs, sep) ==
    IF strs = <<>> THEN ""
    ELSE IF Len(strs) = 1 THEN strs[1]
    ELSE strs[1] \o sep \o JoinWith(Tail(strs), sep)

\* The cookies as the text of one Cookie header.
FormatCookies(cs) ==
    JoinWith([i \in 1..Len(cs) |-> cs[i].Name \o "=" \o cs[i].Value], "; ")

\* The Cookie headers a client sends: none, one or two.
CookieHeaders ==
    LET values == {FormatCookies(cs) : cs \in CookieLists \ {<<>>}} IN
    {<<>>} \cup {<<v>> : v \in values} \cup {<<v, w>> : v \in values, w \in values}

CookiesRequests ==
    {MkRequest("GET", "", "", RootPath, "", "",
               [NoHeaders EXCEPT !["Cookie"] = c], NoBody) : c \in CookieHeaders}

RequestsFor(p) ==
    CASE p.kind = "enricher" -> EnricherRequests
      [] p.kind = "cookies" -> CookiesRequests
      [] p.kind = "blocker" -> BlockerRequests
      [] OTHER -> SegmentRequests

IdleRequest == MkRequest("GET", "", "", RootPath, "", "", NoHeaders, NoBody)

\* ------------------------------------------------------------------- state

Slots == {"r1", "r2"}

VARIABLES
    plug,       \* the plugin instance: its kind and the fields set by New
    pc,         \* per slot: where HandleRequest stands
    info,       \* per slot: traffic.RequestInfo handed to HandleRequest
    request,    \* per slot: the *http.Request, as mutated so far
    orig,       \* per slot: the request as it was before HandleRequest
    response,   \* per slot: what was written to the http.ResponseWriter
    ret,        \* per slot: the value HandleRequest returned
    local,      \* per slot: the local variables of a HandleRequest under way
    sent,       \* per slot: the side-effect requests handed to plug.client.Do
    calls,      \* per slot: the request as each earlier call of HandleRequest left it
    relay       \* the relay's pipeline around the request of slot r1

vars == <<plug, pc, info, request, orig, response, ret, local, sent, calls, relay>>

NoLocal == [WriteKey |-> "", Evts |-> <<>>, idx |-> 0, processedCount |-> 0, userId |-> ""]

\* The relay's pipeline when it is not in use: a plugin is called on its own.
RelayOff ==
    [stage |-> "off", plugins |-> <<>>, maxBodySize |-> 0,
     client |-> [IP |-> "", Port |-> ""],
     next |-> 1, serviced |-> FALSE, infos |-> <<>>, upstream |-> <<>>]

\* One request awaits its handler in slot r1; slot r2 is not in use.
Init ==
    /\ plug \in Plugins
    /\ \E rq \in RequestsFor(plug) :
          /\ request = [s \in Slots |-> IF s = "r1" THEN rq ELSE IdleRequest]
          /\ orig = request
    /\ \E sv \in BOOLEAN :
          info = [s \in Slots |-> [Serviced |-> IF s = "r1" THEN sv ELSE FALSE]]
    /\ pc = [s \in Slots |-> IF s = "r1" THEN "ready" ELSE "off"]
    /\ response = [s \in Slots |-> NoResponse]
    /\ ret = [s \in Slots |-> FALSE]
    /\ local = [s \in Slots |-> NoLocal]
    /\ sent = [s \in Slots |-> <<>>]
    /\ calls = [s \in Slots |-> <<>>]
    /\ relay = RelayOff


\* ------------------------------------------------------- content enricher

\* A handler that takes no request for serviced.
servicedNever(inf) == FALSE

\* if info.Serviced { return false }: the test each HandleRequest begins with.
infoServiced(inf) == inf.Serviced

\* What a call leaves behind: the request, the response writer, the value
\* returned, and whether the call panicked instead of returning.
Outcome(req, resp, serviced) ==
    [request |-> req, response |-> resp, serviced |-> serviced, panic |-> FALSE]

Panicked(req, resp) ==
    [request |-> req, response |-> resp, serviced |-> FALSE, panic |-> TRUE]

\* The orders in which a range over a Go map with the keys S may run.
Orders(S) ==
    {o \in [1..Cardinality(S) -> S] : \A i, j \in 1..Cardinality(S) : o[i] = o[j] => i = j}

\* for header, value := range plug.headerEnrichments { request.Header.Set(header, value) }
RECURSIVE SetAll(_, _, _)
SetAll(header, cfg, order) ==
    IF order = <<>> THEN header
    ELSE SetAll(HeaderSet(header, Head(order), cfg[Head(order)]), cfg, Tail(order))

\* contentEnricherPlugin.enrichHeaderContent, the map ranged over in order.
enrichHeaderContent(plg, resp, req, order) ==
    IF Cardinality(DOMAIN plg.headerEnrichments) = 0
    THEN Outcome(req, resp, FALSE)
    ELSE Outcome([req EXCEPT !.Header = SetAll(req.Header, plg.headerEnrichments, order)],
                 resp, FALSE)

\* The loop without its test for a member already present.
EnrichedObjOverwriting(obj, cfg) ==
    [k \in DOMAIN obj \cup DOMAIN cfg |-> IF k \in DOMAIN cfg THEN cfg[k] ELSE obj[k]]

\* for key, value := range plug.bodyEnrichments { if !exists { jsonBody[key] = value } }
EnrichedObj(obj, cfg) ==
    [k \in DOMAIN obj \cup DOMAIN cfg |-> IF k \in DOMAIN obj THEN obj[k] ELSE cfg[k]]

\* The new body put in place with the lengths left as they were.
setBodyOnly(req, bodyBytes) == [req EXCEPT !.Body = NewBuffer(bodyBytes)]

\* Lines 165-167: the new body, request.ContentLength and the Content-Length
\* header.
setBody(req, bodyBytes) ==
    [req EXCEPT !.Body = NewBuffer(bodyBytes),
                !.ContentLength = ByteLen(bodyBytes),
                !.Header = HeaderSet(@, "Content-Length", ToString(ByteLen(bodyBytes)))]

\* contentEnricherPlugin.enrichBodyContent
enrichBodyContent(plg, resp, req) ==
    IF Cardinality(DOMAIN plg.bodyEnrichments) = 0 THEN Outcome(req, resp, FALSE)
    ELSE IF HeaderGet(req.Header, "Content-Type") # "application/json"
    THEN Outcome(req, resp, FALSE)
    ELSE IF req.Body.state \in {"nil", "nobody"} THEN Outcome(req, resp, FALSE)
    ELSE
      LET rd == ReadAll(req.Body)
          bodyBytes == rd.bytes
          req1 == [req EXCEPT !.Body = NewBuffer(bodyBytes)]
      IN
      IF rd.err
      THEN Outcome(req1, httpError("Error reading request body", StatusInternalServerError),
                   TRUE)
      ELSE IF ByteLen(bodyBytes) = 0 THEN Outcome(req1, resp, FALSE)
      ELSE
        LET um == UnmarshalMap(bodyBytes) IN
        IF um.err THEN Outcome(req1, resp, FALSE)
        ELSE IF um.isNil
        THEN \* jsonBody is a nil map: the first assignment to it panics
             Panicked(req1, resp)
        ELSE
          LET jsonBody == [um.text EXCEPT !.obj = EnrichedObj(@, plg.bodyEnrichments)]
              enrichedBodyBytes == Marshal(jsonBody)
          IN Outcome(setBody(req1, enrichedBodyBytes), resp, FALSE)

\* contentEnricherPlugin.HandleRequest
enricherHandleRequest(plg, resp, req, inf, order) ==
    IF infoServiced(inf) THEN Outcome(req, resp, FALSE)
    ELSE
      LET h == enrichHeaderContent(plg, resp, req, order) IN
      IF h.panic \/ h.serviced THEN h
      ELSE
        LET b == enrichBodyContent(plg, h.response, h.request) IN
        IF b.panic \/ b.serviced THEN b
        ELSE IF Cardinality(DOMAIN plg.headerEnrichments) > 0
                \/ Cardinality(DOMAIN plg.bodyEnrichments) > 0
        THEN Outcome([b.request EXCEPT
                         !.Header = HeaderAdd(@, PluginVersionHeaderName, RelayRelease)],
                     b.response, FALSE)
        ELSE Outcome(b.request, b.response, FALSE)

\* The call returns, or panics, with the outcome o.
\* The outcome of a call kept where every request in flight sees it.
FinishShared(s, o) ==
    /\ request' = [t \in Slots |-> o.request]
    /\ response' = [response EXCEPT ![s] = o.response]
    /\ ret' = [ret EXCEPT ![s] = o.serviced]
    /\ pc' = [pc EXCEPT ![s] = IF o.panic THEN "panicked" ELSE "done"]

\* The outcome of a call lands in the caller's request, response and result.
Finish(s, o) ==
    /\ request' = [request EXCEPT ![s] = o.request]
    /\ response' = [response EXCEPT ![s] = o.response]
    /\ ret' = [ret EXCEPT ![s] = o.serviced]
    /\ pc' = [pc EXCEPT ![s] = IF o.panic THEN "panicked" ELSE "done"]

\* The content enricher handles the request of slot s.
EnricherHandle(s) ==
    /\ plug.kind = "enricher"
    /\ pc[s] = "ready"
    /\ \E order \in Orders(DOMAIN plug.headerEnrichments) :
          Finish(s, enricherHandleRequest(plug, response[s], request[s], info[s], order))
    /\ UNCHANGED <<plug, calls, relay, info, orig, local, sent>>

\* HandleRequest is called once more on the request that a first call has
\* handed on.
EnricherHandleAgain(s) ==
    /\ plug.kind = "enricher"
    /\ pc[s] = "done"
    /\ calls[s] = <<>>
    /\ ret[s] = FALSE
    /\ calls' = [calls EXCEPT ![s] = <<request[s]>>]
    /\ \E order \in Orders(DOMAIN plug.headerEnrichments) :
          Finish(s, enricherHandleRequest(plug, response[s], request[s], info[s], order))
    /\ UNCHANGED <<plug, relay, info, orig, local, sent>>

\* -------------------------------------------------------- content blocker

RECURSIVE Stars(_)
Stars(n) == IF n = 0 THEN "" ELSE "*" \o Stars(n - 1)

RECURSIVE Join(_)
Join(pieces) == IF pieces = <<>> THEN "" ELSE Head(pieces) \o Join(Tail(pieces))

\* The scan of a text into its pieces.
Pieces(text) ==
    IF \E p \in BlockerPhrases : Join(p) = text
    THEN CHOOSE p \in BlockerPhrases : Join(p) = text
    ELSE <<text>>

\* One rule over the pieces of a text: exclude replaces each match by the
\* empty string, mask by as many '*' as the match is long.
applyRule(rule, pieces) ==
    [i \in 1..Len(pieces) |->
        IF pieces[i] \in rule.pattern
        THEN (IF rule.kind = "exclude" THEN "" ELSE Stars(Len(pieces[i])))
        ELSE pieces[i]]

RECURSIVE applyRules(_, _)
applyRules(rules, pieces) ==
    IF rules = <<>> THEN pieces
    ELSE applyRules(Tail(rules), applyRule(Head(rules), pieces))

IsExclude(rule) == rule.kind = "exclude"

IsMask(rule) == rule.kind = "mask"

\* The rules in the order in which they are declared.
rulesAsDeclared(rules) == rules

\* The rules in the order in which they are applied: exclusion has priority
\* over masking whatever the order of declaration.
rulesInOrder(rules) == SelectSeq(rules, IsExclude) \o SelectSeq(rules, IsMask)

\* A text after the rules.
blockText(rules, text) == Join(applyRules(rulesInOrder(rules), Pieces(text)))

\* Every value of every header after the header rules; the names are not
\* touched.
blockHeaders(rules, header) ==
    [n \in DOMAIN header |-> [i \in 1..Len(header[n]) |-> blockText(rules, header[n][i])]]

\* The decoded body after the body rules.
blockBodyText(rules, t) ==
    IF t.kind = "object"
    THEN [t EXCEPT !.obj = [k \in DOMAIN t.obj |-> blockText(rules, t.obj[k])]]
    ELSE t

\* The body left as plain text whatever its encoding was.
reencodePlain(req, enc, t) ==
    [req EXCEPT !.Body = NewBuffer(Plain(t)),
                !.ContentLength = ByteLen(Plain(t)),
                !.Header = HeaderSet(@, "Content-Length", ToString(ByteLen(Plain(t))))]

\* The body re-encoded as it came, with its lengths.
reencode(req, enc, t) ==
    LET bodyBytes == IF enc = "gzip" THEN Gz(t) ELSE Plain(t) IN
    [req EXCEPT !.Body = NewBuffer(bodyBytes),
                !.ContentLength = ByteLen(bodyBytes),
                !.Header = HeaderSet(@, "Content-Length", ToString(ByteLen(bodyBytes)))]

\* The content blocker's HandleRequest: nothing when the request is serviced;
\* 500 and serviced for a request with an Upgrade header, or when the body
\* cannot be read or decoded; otherwise the header values and the
\* application/json body after the rules, and the version header.
blockerHandleRequest(plg, resp, req, inf) ==
    IF infoServiced(inf) THEN Outcome(req, resp, FALSE)
    ELSE IF req.Header["Upgrade"] # <<>>
    THEN Outcome(req, httpError("Upgrade not supported", StatusInternalServerError), TRUE)
    ELSE
      LET req1 == [req EXCEPT !.Header = blockHeaders(plg.headerRules, @)]
          stamp(r) == [r EXCEPT !.Header = HeaderAdd(@, "X-Relay-Content-Blocker-Version",
                                                     RelayRelease)]
      IN
      IF \/ plg.bodyRules = <<>>
         \/ HeaderGet(req1.Header, "Content-Type") # "application/json"
         \/ req1.Body.state \in {"nil", "nobody"}
      THEN Outcome(stamp(req1), resp, FALSE)
      ELSE
        LET rd == ReadAll(req1.Body)
            req2 == [req1 EXCEPT !.Body = NewBuffer(rd.bytes)]
            gz == HeaderGet(req1.Header, "Content-Encoding") = "gzip"
            z == IF gz THEN GzipReadAll(rd.bytes)
                 ELSE [newErr |-> FALSE, readErr |-> FALSE, bytes |-> rd.bytes]
        IN
        IF rd.err \/ z.newErr \/ z.readErr \/ z.bytes.enc # "identity"
        THEN Outcome(req2, httpError("Error reading request body",
                                     StatusInternalServerError), TRUE)
        ELSE Outcome(stamp(reencode(req2, IF gz THEN "gzip" ELSE "identity",
                                    blockBodyText(plg.bodyRules, z.bytes.text))),
                     resp, FALSE)

\* The content blocker handles the request of slot s.
BlockerHandle(s) ==
    /\ plug.kind = "blocker"
    /\ pc[s] = "ready"
    /\ Finish(s, blockerHandleRequest(plug, response[s], request[s], info[s]))
    /\ UNCHANGED <<plug, calls, relay, info, orig, local, sent>>

\* ------------------------------------------------------------------ cookies

\* The cookies of the text of one Cookie header.
ParseCookies(v) ==
    IF \E cs \in CookieLists : FormatCookies(cs) = v
    THEN CHOOSE cs \in CookieLists : FormatCookies(cs) = v
    ELSE <<>>

\* The tokens of a space-separated list.
Tokens(str) ==
    LET lists == SeqsUpTo({c.Name : c \in KnownCookies}, MaxCookies) IN
    IF \E ts \in lists : JoinWith(ts, " ") = str
    THEN CHOOSE ts \in lists : JoinWith(ts, " ") = str
    ELSE <<str>>

Range(seq) == {seq[i] : i \in 1..Len(seq)}

\* The allowed cookie names: the allowlist and the tokens of
\* TRAFFIC_RELAY_COOKIES.
allowedCookies(plg) == Range(plg.allowlist) \cup Range(Tokens(plg.TRAFFIC_RELAY_COOKIES))

RECURSIVE Concat(_)
Concat(seqs) == IF seqs = <<>> THEN <<>> ELSE Head(seqs) \o Concat(Tail(seqs))

\* The cookies of the first Cookie header only.
firstHeaderCookies(req) ==
    IF req.Header["Cookie"] = <<>> THEN <<>> ELSE ParseCookies(req.Header["Cookie"][1])

\* The cookies of all the Cookie headers of a request, in order.
requestCookies(req) ==
    Concat([i \in 1..Len(req.Header["Cookie"]) |-> ParseCookies(req.Header["Cookie"][i])])

\* The cookies plugin's HandleRequest: nothing when the request is serviced;
\* otherwise the cookies of all the Cookie headers with an allowed name, in
\* one Cookie header, or no Cookie header when none is left.
cookiesHandleRequest(plg, resp, req, inf) ==
    IF infoServiced(inf) THEN Outcome(req, resp, FALSE)
    ELSE
      LET allowed(c) == c.Name \in allowedCookies(plg)
          kept == SelectSeq(requestCookies(req), allowed)
      IN Outcome([req EXCEPT !.Header["Cookie"] =
                                 IF kept = <<>> THEN <<>> ELSE <<FormatCookies(kept)>>],
                 resp, FALSE)

\* The cookies plugin handles the request of slot s.
CookiesHandle(s) ==
    /\ plug.kind = "cookies"
    /\ pc[s] = "ready"
    /\ Finish(s, cookiesHandleRequest(plug, response[s], request[s], info[s]))
    /\ UNCHANGED <<plug, calls, relay, info, orig, local, sent>>

\* --------------------------------------------- segment proxy: the payload

\* requestBody of HandleRequest, marshalled: writeKey, userId, timestamp,
\* properties.url and name.  The timestamp is the clock's.
PagePayload(writeKey, userId, url) ==
    Marshal(Doc("object",
                [k \in {"writeKey", "userId", "timestamp", "properties.url", "name"} |->
                    CASE k = "writeKey" -> writeKey
                      [] k = "userId" -> userId
                      [] k = "timestamp" -> "unix seconds"
                      [] k = "properties.url" -> url
                      [] OTHER -> "track " \o url],
                TRUE, "absent", <<>>))

\* ------------------------------------- segment proxy, rewriting variant

\* segment_proxy_plugin.go, lines 66-96: read the body, put it back, and
\* decompress it when Content-Encoding says gzip.  stop: HandleRequest returns.
rewriteContentBytes(req) ==
    IF req.Body.state = "nil" THEN [stop |-> TRUE, request |-> req, contentBytes |-> NoBytes]
    ELSE
      LET rd == ReadAll(req.Body) IN
      IF rd.err
      THEN [stop |-> TRUE, request |-> [req EXCEPT !.Body = rd.rest], contentBytes |-> NoBytes]
      ELSE
        LET req1 == [req EXCEPT !.Body = NewBuffer(rd.bytes)] IN
        IF HeaderGet(req.Header, "Content-Encoding") = "gzip"
        THEN LET z == GzipReadAll(rd.bytes) IN
             [stop |-> z.newErr \/ z.readErr, request |-> req1, contentBytes |-> z.bytes]
        ELSE [stop |-> FALSE, request |-> req1, contentBytes |-> rd.bytes]

\* segment_proxy_plugin.go, lines 103-140: the loop over segmentData.Evts.
\* Every way out of it returns false; the value is the request it leaves.
RECURSIVE rewriteEvents(_, _, _)
rewriteEvents(req, writeKey, evts) ==
    IF evts = <<>> THEN req
    ELSE
      LET event == Head(evts) IN
      IF event.Kind # navigateEvent THEN rewriteEvents(req, writeKey, Tail(evts))
      ELSE
        LET req1 == [req EXCEPT !.Path = PagePath, !.Method = "POST"]
            ua == UnmarshalArgs(event.Args)
        IN
        IF ua.err THEN req1
        ELSE IF Len(ua.args) = 0 THEN req1
        ELSE
          LET url == ua.args[1]
              jsonBody == PagePayload(writeKey, req1.UserId, url)
              contentLength == ByteLen(jsonBody)
          IN rewriteEvents([req1 EXCEPT
                               !.Body = NewBuffer(jsonBody),
                               !.ContentLength = contentLength,
                               !.Header = HeaderSet(@, "Content-Length",
                                                    ToString(contentLength))],
                           writeKey, Tail(evts))

\* The path test of segment_proxy_plugin.go, line 62.
rewriteMatches(path) == path = BundlePath

\* segmentProxyPlugin.HandleRequest of segment_proxy_plugin.go
rewriteHandleRequest(resp, req, inf) ==
    IF infoServiced(inf) THEN Outcome(req, resp, FALSE)
    ELSE IF ~rewriteMatches(req.Path) THEN Outcome(req, resp, FALSE)
    ELSE
      LET cb == rewriteContentBytes(req) IN
      IF cb.stop THEN Outcome(cb.request, resp, FALSE)
      ELSE
        LET segmentData == UnmarshalSegmentData(cb.contentBytes) IN
        IF segmentData.err THEN Outcome(cb.request, resp, FALSE)
        ELSE Outcome(rewriteEvents(cb.request, segmentData.WriteKey, segmentData.Evts),
                     resp, FALSE)

\* The rewriting segment proxy handles the request of slot s.
RewriteHandle(s) ==
    /\ plug.kind = "rewrite"
    /\ pc[s] = "ready"
    /\ Finish(s, rewriteHandleRequest(response[s], request[s], info[s]))
    /\ UNCHANGED <<plug, calls, relay, info, orig, local, sent>>

\* --------------------------------------- segment proxy, fan-out variant

\* segment_proxy_plugin_test.go, lines 257-287: read the body, put it back,
\* and decompress it when Content-Encoding says gzip.
fanoutContentBytes(req) ==
    IF req.Body.state = "nil" THEN [stop |-> TRUE, request |-> req, contentBytes |-> NoBytes]
    ELSE
      LET rd == ReadAll(req.Body) IN
      IF rd.err
      THEN [stop |-> TRUE, request |-> [req EXCEPT !.Body = rd.rest], contentBytes |-> NoBytes]
      ELSE
        LET req1 == [req EXCEPT !.Body = NewBuffer(rd.bytes)] IN
        IF HeaderGet(req.Header, "Content-Encoding") = "gzip"
        THEN LET z == GzipReadAll(rd.bytes) IN
             [stop |-> z.newErr \/ z.readErr, request |-> req1, contentBytes |-> z.bytes]
        ELSE [stop |-> FALSE, request |-> req1, contentBytes |-> rd.bytes]

\* The path test as an exact comparison.
fanoutMatchesExact(path) == path = BundlePath

\* The path test of the fan-out plugin, line 253.
fanoutMatches(path) == Contains(path, BundlePath)

\* The side-effect request with every header of the request copied, its
\* Content-Length and Content-Type too.
proxyRequestCopyingAll(req, writeKey, userId, url) ==
    LET jsonBody == PagePayload(writeKey, userId, url) IN
    [Method |-> "POST",
     Scheme |-> IF req.Scheme = "" THEN (IF req.TLS THEN "https" ELSE "http") ELSE req.Scheme,
     Host |-> req.Host,
     Path |-> PagePath,
     UserId |-> req.UserId,
     QueryCE |-> req.QueryCE,
     Header |-> req.Header,
     ContentLength |-> ByteLen(jsonBody),
     Body |-> jsonBody,
     state |-> "inflight"]

\* Lines 326-350: the side-effect request for a navigate event with the url.
\* targetURL is a copy of request.URL with the path replaced.
proxyRequest(req, writeKey, userId, url) ==
    LET jsonBody == PagePayload(writeKey, userId, url) IN
    [Method |-> "POST",
     Scheme |-> IF req.Scheme = "" THEN (IF req.TLS THEN "https" ELSE "http") ELSE req.Scheme,
     Host |-> req.Host,
     Path |-> PagePath,
     UserId |-> req.UserId,
     QueryCE |-> req.QueryCE,
     Header |-> HeaderSet([n \in HeaderNames |->
                              IF n = "Content-Length" THEN <<>> ELSE req.Header[n]],
                          "Content-Type", "application/json"),
     ContentLength |-> ByteLen(jsonBody),
     Body |-> jsonBody,
     state |-> "inflight"]

\* Lines 249-296: HandleRequest up to the loop over segmentData.Evts.
FanoutBegin(s) ==
    /\ plug.kind = "fanout"
    /\ pc[s] = "ready"
    /\ IF infoServiced(info[s]) \/ ~fanoutMatches(request[s].Path)
       THEN /\ pc' = [pc EXCEPT ![s] = "done"]
            /\ ret' = [ret EXCEPT ![s] = FALSE]
            /\ UNCHANGED <<request, local>>
       ELSE LET cb == fanoutContentBytes(request[s])
                segmentData == UnmarshalSegmentData(cb.contentBytes)
            IN
            /\ request' = [request EXCEPT ![s] = cb.request]
            /\ IF cb.stop \/ segmentData.err
               THEN /\ pc' = [pc EXCEPT ![s] = "done"]
                    /\ ret' = [ret EXCEPT ![s] = FALSE]
                    /\ UNCHANGED local
               ELSE /\ pc' = [pc EXCEPT ![s] = "loop"]
                    /\ local' = [local EXCEPT ![s] =
                                   [WriteKey |-> segmentData.WriteKey,
                                    Evts |-> segmentData.Evts,
                                    idx |-> 1,
                                    processedCount |-> 0,
                                    userId |-> request[s].UserId]]
                    /\ UNCHANGED ret
    /\ UNCHANGED <<plug, calls, relay, info, orig, response, sent>>

\* One turn of the loop that hands the request to a goroutine and goes on.
FanoutEventAsync(s) ==
    /\ plug.kind = "fanout"
    /\ pc[s] = "loop"
    /\ local[s].idx <= Len(local[s].Evts)
    /\ LET event == local[s].Evts[local[s].idx]
           ua == UnmarshalArgs(event.Args)
       IN
       IF event.Kind # navigateEvent \/ ua.err \/ Len(ua.args) = 0
       THEN UNCHANGED sent
       ELSE sent' = [sent EXCEPT ![s] =
                       Append(@, proxyRequest(request[s], local[s].WriteKey,
                                              local[s].userId, ua.args[1]))]
    /\ local' = [local EXCEPT ![s].idx = @ + 1]
    /\ UNCHANGED <<plug, calls, relay, pc, info, request, orig, response, ret>>

\* Lines 298-354: one turn of the loop, up to and with the call of
\* plug.client.Do for a navigate event whose Args are a non-empty list of strings.
FanoutEvent(s) ==
    /\ plug.kind = "fanout"
    /\ pc[s] = "loop"
    /\ local[s].idx <= Len(local[s].Evts)
    /\ LET event == local[s].Evts[local[s].idx]
           ua == UnmarshalArgs(event.Args)
       IN
       IF event.Kind # navigateEvent \/ ua.err \/ Len(ua.args) = 0
       THEN /\ local' = [local EXCEPT ![s].idx = @ + 1]
            /\ UNCHANGED <<pc, sent>>
       ELSE /\ sent' = [sent EXCEPT ![s] =
                          Append(@, proxyRequest(request[s], local[s].WriteKey,
                                                 local[s].userId, ua.args[1]))]
            /\ pc' = [pc EXCEPT ![s] = "await"]
            /\ UNCHANGED local
    /\ UNCHANGED <<plug, calls, relay, info, request, orig, response, ret>>

\* plug.client.Do returns a response: lines 354-362.  A request without a
\* host cannot be answered.
FanoutAnswered(s) ==
    /\ plug.kind = "fanout"
    /\ pc[s] = "await"
    /\ sent[s][Len(sent[s])].Host # ""
    /\ sent' = [sent EXCEPT ![s][Len(sent[s])].state = "answered"]
    /\ local' = [local EXCEPT ![s].idx = @ + 1, ![s].processedCount = @ + 1]
    /\ pc' = [pc EXCEPT ![s] = "loop"]
    /\ UNCHANGED <<plug, calls, relay, info, request, orig, response, ret>>

\* A failed send that ends the loop instead of going on to the next event.
FanoutFailedAborting(s) ==
    /\ plug.kind = "fanout"
    /\ pc[s] = "await"
    /\ sent' = [sent EXCEPT ![s][Len(sent[s])].state = "failed"]
    /\ local' = [local EXCEPT ![s].idx = Len(local[s].Evts) + 1]
    /\ pc' = [pc EXCEPT ![s] = "loop"]
    /\ UNCHANGED <<plug, calls, relay, info, request, orig, response, ret>>

\* plug.client.Do returns an error (no host, no connection, or the client's
\* timeout): lines 354-358.
FanoutFailed(s) ==
    /\ plug.kind = "fanout"
    /\ pc[s] = "await"
    /\ sent' = [sent EXCEPT ![s][Len(sent[s])].state = "failed"]
    /\ local' = [local EXCEPT ![s].idx = @ + 1]
    /\ pc' = [pc EXCEPT ![s] = "loop"]
    /\ UNCHANGED <<plug, calls, relay, info, request, orig, response, ret>>

\* Lines 366-372: the loop is over and HandleRequest returns false.
FanoutReturn(s) ==
    /\ plug.kind = "fanout"
    /\ pc[s] = "loop"
    /\ local[s].idx > Len(local[s].Evts)
    /\ pc' = [pc EXCEPT ![s] = "done"]
    /\ ret' = [ret EXCEPT ![s] = FALSE]
    /\ UNCHANGED <<plug, calls, relay, info, request, orig, response, local, sent>>

\* ------------------------------------------------------------ the system

\* Two requests in flight at once: the relay serves each request on a
\* goroutine of its own and calls the same plugin instance from both.
ConcPlugins ==
    {p \in EnricherPlugins : DOMAIN p.bodyEnrichments # {} /\ DOMAIN p.headerEnrichments # {}}
    \cup {RewritePlugin, FanoutPlugin}

ConcRequests(p) ==
    IF p.kind = "enricher"
    THEN {r \in EnricherRequests :
             /\ r.Header[PluginVersionHeaderName] = <<>>
             /\ r.Header["Content-Type"] = <<"application/json">>
             /\ r.Body.state = "stream"
             /\ r.Body.avail.enc = "identity"}
    ELSE {r \in SegmentRequests :
             /\ r.Host # "" /\ r.Path = BundlePath /\ r.QueryCE = ""
             /\ r.Header["Content-Type"] = <<>>
             /\ r.Body.state = "stream"
             /\ r.Body.avail.enc = "identity"
             /\ r.Body.avail.text.kind = "object"
             /\ r.Body.avail.text.evtsKind = "list"
             /\ Len(r.Body.avail.text.evts) \in 1..2
             /\ \A i \in 1..Len(r.Body.avail.text.evts) :
                   r.Body.avail.text.evts[i].Args.kind = "strings"}

ConcInit ==
    /\ plug \in ConcPlugins
    /\ request \in [Slots -> ConcRequests(plug)]
    /\ orig = request
    /\ info = [s \in Slots |-> [Serviced |-> FALSE]]
    /\ pc = [s \in Slots |-> "ready"]
    /\ response = [s \in Slots |-> NoResponse]
    /\ ret = [s \in Slots |-> FALSE]
    /\ local = [s \in Slots |-> NoLocal]
    /\ sent = [s \in Slots |-> <<>>]
    /\ calls = [s \in Slots |-> <<>>]
    /\ relay = RelayOff

ConcNext ==
    \E s \in Slots :
        \/ EnricherHandle(s)
        \/ RewriteHandle(s)
        \/ FanoutBegin(s)
        \/ FanoutEvent(s)
        \/ FanoutAnswered(s)
        \/ FanoutFailed(s)
        \/ FanoutReturn(s)

ConcSpec == ConcInit /\ [][ConcNext]_vars


Next ==
    \E s \in Slots :
        \/ EnricherHandle(s)
        \/ EnricherHandleAgain(s)
        \/ BlockerHandle(s)
        \/ CookiesHandle(s)
        \/ RewriteHandle(s)
        \/ FanoutBegin(s)
        \/ FanoutEvent(s)
        \/ FanoutAnswered(s)
        \/ FanoutFailed(s)
        \/ FanoutReturn(s)

Spec == Init /\ [][Next]_vars

\* ------------------------------------------------------ the relay's pipeline

\* The pipeline of the relay's request handler: the loaded plugins are called
\* in registration order, each with the serviced flag as it stands; after the
\* last one the request is dropped (serviced), tunnelled (Upgrade), refused
\* (over relay.max-body-size) or stamped and forwarded.

RelaySlot == "r1"

\* No plugin stands alone: the plugins are those of the pipeline.
NoPlugin ==
    [kind |-> "none", bodyEnrichments |-> EmptyObj, headerEnrichments |-> EmptyObj,
     clientTimeout |-> 0]

\* An enricher with a body field to add and a header to set.
RelayEnricher ==
    [kind |-> "enricher",
     bodyEnrichments |-> [k \in {"new-body-key"} |-> "enrich payload"],
     headerEnrichments |-> [k \in {"X-Forwarded-For"} |-> "10.0.0.1"],
     clientTimeout |-> 0]

\* A content blocker as the content-blocker tests configure it.
RelayBlocker ==
    [kind |-> "blocker", bodyEnrichments |-> EmptyObj, headerEnrichments |-> EmptyObj,
     clientTimeout |-> 0,
     bodyRules |-> <<BlockRule("mask", IPv4Pattern)>>,
     headerRules |-> <<BlockRule("exclude", IPv4Pattern)>>]

\* The lists of plugins handed to the loader, in registration order.
RelayPluginLists == SeqsUpTo({RelayEnricher, RewritePlugin, RelayBlocker}, MaxPlugins)

\* relay.max-body-size: absent (0) or a cap in bytes.
MaxBodySizes == {0, 5, 40}

\* The client's address as the listener sees it.
RelayClient == [IP |-> "127.0.0.1", Port |-> "54321"]

RelayBodies ==
    {NoBody, FailingBody,
     Stream(Plain(NullText), FALSE),
     Stream(Plain(Doc("object", [k \in {"content"} |-> "Original content"], TRUE,
                      "absent", <<>>)), FALSE),
     Stream(Plain(Doc("object", WriteKeyObj, TRUE, "list",
                      <<Event(navigateEvent, ArgsList(<<"https://example.com">>))>>)), FALSE)}

\* The requests a client sends to the relay, over http or https, some with
\* an X-Forwarded-For of their own, some asking for a WebSocket upgrade.
RelayRequests ==
    {[MkRequest("POST", "", "", p, "test-user", "",
                [NoHeaders EXCEPT !["Content-Type"] = <<"application/json">>,
                                  !["X-Forwarded-For"] = xff,
                                  !["Upgrade"] = up],
                b) EXCEPT !.TLS = tls] :
        p \in {RootPath, BundlePath},
        xff \in {<<>>, <<"foo.com,192.168.0.1,bar.com">>},
        up \in {<<>>, <<"websocket">>},
        tls \in BOOLEAN,
        b \in RelayBodies}

\* A request has arrived at a relay with its plugins loaded.
RelayInit ==
    /\ plug = NoPlugin
    /\ \E rq \in RelayRequests :
          /\ request = [s \in Slots |-> IF s = RelaySlot THEN rq ELSE IdleRequest]
          /\ orig = request
    /\ info = [s \in Slots |-> [Serviced |-> FALSE]]
    /\ pc = [s \in Slots |-> "off"]
    /\ response = [s \in Slots |-> NoResponse]
    /\ ret = [s \in Slots |-> FALSE]
    /\ local = [s \in Slots |-> NoLocal]
    /\ sent = [s \in Slots |-> <<>>]
    /\ calls = [s \in Slots |-> <<>>]
    /\ \E ps \in RelayPluginLists, cap \in MaxBodySizes :
          relay = [stage |-> "pipeline", plugins |-> ps, maxBodySize |-> cap,
                   client |-> RelayClient,
                   next |-> 1, serviced |-> FALSE, infos |-> <<>>, upstream |-> <<>>]

\* HandleRequest of the plugin plg.
pluginHandleRequest(plg, resp, req, inf, order) ==
    CASE plg.kind = "enricher" -> enricherHandleRequest(plg, resp, req, inf, order)
      [] plg.kind = "blocker" -> blockerHandleRequest(plg, resp, req, inf)
      [] OTHER -> rewriteHandleRequest(resp, req, inf)

\* The pipeline calls its next plugin with the serviced flag as it stands, and
\* sets the flag when the plugin returns true.  A plugin that panics ends the
\* handling of the request.
RelayCallPlugin ==
    /\ relay.stage = "pipeline"
    /\ relay.next <= Len(relay.plugins)
    /\ LET plg == relay.plugins[relay.next]
           inf == [Serviced |-> relay.serviced]
       IN \E order \in Orders(DOMAIN plg.headerEnrichments) :
             LET o == pluginHandleRequest(plg, response[RelaySlot], request[RelaySlot],
                                          inf, order)
             IN /\ request' = [request EXCEPT ![RelaySlot] = o.request]
                /\ response' = [response EXCEPT ![RelaySlot] = o.response]
                /\ relay' = [relay EXCEPT
                               !.next = @ + 1,
                               !.serviced = @ \/ o.serviced,
                               !.infos = Append(@, [plugin |-> relay.next,
                                                    serviced |-> inf.Serviced,
                                                    returned |-> o.serviced]),
                               !.stage = IF o.panic THEN "aborted" ELSE @]
    /\ UNCHANGED <<plug, pc, info, orig, ret, local, sent, calls>>

\* After the last plugin: the request was serviced, the response is complete.
RelayServiced ==
    /\ relay.stage = "pipeline"
    /\ relay.next > Len(relay.plugins)
    /\ relay.serviced
    /\ relay' = [relay EXCEPT !.stage = "serviced"]
    /\ UNCHANGED <<plug, pc, info, request, orig, response, ret, local, sent, calls>>

\* The effective body length the body-size gate goes by: Content-Length.
effectiveBodyLength(req) == req.ContentLength

\* The stamp that replaces what the request carries under the four names.
stampForwardedHeadersSetting(req, client) ==
    [req EXCEPT !.Header =
        HeaderSet(HeaderSet(HeaderSet(HeaderSet(@,
            "X-Forwarded-Proto", IF req.TLS THEN "https" ELSE "http"),
            "X-Forwarded-For", client.IP),
            "X-Forwarded-Port", client.Port),
            "X-Relay-Version", RelayRelease)]

\* The forwarded headers and the relay's version header are added to the
\* request; a value the request carries under one of the names stays in front
\* (the repository's tests read a client's X-Forwarded-For back as the first
\* value at the upstream).
stampForwardedHeaders(req, client) ==
    [req EXCEPT !.Header =
        HeaderAdd(HeaderAdd(HeaderAdd(HeaderAdd(@,
            "X-Forwarded-Proto", IF req.TLS THEN "https" ELSE "http"),
            "X-Forwarded-For", client.IP),
            "X-Forwarded-Port", client.Port),
            "X-Relay-Version", RelayRelease)]

\* The request asks for a WebSocket upgrade.
isUpgrade(req) == HeaderGet(req.Header, "Upgrade") = "websocket"

\* Not serviced, and an upgrade: the request is handed to the tunnel, which
\* dials the upstream with the forwarded headers.
RelayTunnel ==
    /\ relay.stage = "pipeline"
    /\ relay.next > Len(relay.plugins)
    /\ ~relay.serviced
    /\ isUpgrade(request[RelaySlot])
    /\ relay' = [relay EXCEPT
                   !.stage = "tunnelled",
                   !.upstream = Append(@, [via |-> "tunnel",
                                           request |-> stampForwardedHeaders(
                                                          request[RelaySlot], relay.client)])]
    /\ UNCHANGED <<plug, pc, info, request, orig, response, ret, local, sent, calls>>

\* Not serviced, no upgrade, and the body over relay.max-body-size: 503.
RelayReject ==
    /\ relay.stage = "pipeline"
    /\ relay.next > Len(relay.plugins)
    /\ ~relay.serviced
    /\ ~isUpgrade(request[RelaySlot])
    /\ relay.maxBodySize # 0
    /\ effectiveBodyLength(request[RelaySlot]) > relay.maxBodySize
    /\ response' = [response EXCEPT
                      ![RelaySlot] = httpError("Body too large", StatusServiceUnavailable)]
    /\ relay' = [relay EXCEPT !.stage = "rejected"]
    /\ UNCHANGED <<plug, pc, info, request, orig, ret, local, sent, calls>>

\* Otherwise the request is stamped and handed to the forwarder.
RelayForward ==
    /\ relay.stage = "pipeline"
    /\ relay.next > Len(relay.plugins)
    /\ ~relay.serviced
    /\ ~isUpgrade(request[RelaySlot])
    /\ relay.maxBodySize = 0
       \/ effectiveBodyLength(request[RelaySlot]) <= relay.maxBodySize
    /\ relay' = [relay EXCEPT
                   !.stage = "forwarded",
                   !.upstream = Append(@, [via |-> "forward",
                                           request |-> stampForwardedHeaders(
                                                          request[RelaySlot], relay.client)])]
    /\ UNCHANGED <<plug, pc, info, request, orig, response, ret, local, sent, calls>>

RelayNext ==
    \/ RelayCallPlugin
    \/ RelayServiced
    \/ RelayTunnel
    \/ RelayReject
    \/ RelayForward

RelaySpec == RelayInit /\ [][RelayNext]_vars

\* ================================================================== claims

\* What the claims say of a request, stated without the plugins' code.

IsJSON(req) == HeaderGet(req.Header, "Content-Type") = "application/json"

SaysGzip(req) == HeaderGet(req.Header, "Content-Encoding") = "gzip"

\* The body arrives whole.
Arrives(req) == req.Body.state = "stream" /\ ~req.Body.fail

\* The request carries the JSON object as an identity-encoded body.
IdentityObject(req) ==
    /\ Arrives(req)
    /\ ~SaysGzip(req)
    /\ req.Body.avail.enc = "identity"
    /\ req.Body.avail.text.kind = "object"

\* The request carries the JSON object as a gzip body under Content-Encoding: gzip.
GzipObject(req) ==
    /\ Arrives(req)
    /\ SaysGzip(req)
    /\ req.Body.avail.enc = "gzip"
    /\ req.Body.avail.text.kind = "object"

\* The same request with its body identity-encoded.
AsIdentity(req) ==
    [req EXCEPT !.Body = Stream(Plain(req.Body.avail.text), FALSE),
                !.ContentLength = TextLen(req.Body.avail.text),
                !.Header = [@ EXCEPT !["Content-Encoding"] = <<>>,
                                     !["Content-Length"] =
                                         <<ToString(TextLen(req.Body.avail.text))>>]]

\* The object with every configured member that it lacks.
PlusAbsent(obj, cfg) ==
    [k \in DOMAIN obj \cup DOMAIN cfg |-> IF k \in DOMAIN obj THEN obj[k] ELSE cfg[k]]

Unserviced(s) == ~info[s].Serviced

EnricherDone(s) == plug.kind = "enricher" /\ pc[s] = "done"

\* C1: a gzip-encoded JSON object sent with Content-Type application/json to an
\* enricher with body enrichments is handed on gzip-encoded, its decoded form
\* the original object plus every configured member that was absent, with
\* Content-Encoding: gzip kept and Content-Length the length of the encoded
\* body; decoded, it is what the identity-encoded request yields.
C1_GzipBodyEnriched ==
    \A s \in Slots :
        ( /\ EnricherDone(s) /\ Unserviced(s)
          /\ DOMAIN plug.bodyEnrichments # {}
          /\ IsJSON(orig[s]) /\ GzipObject(orig[s]) )
        => LET out == Readable(request[s])
               plain == enrichBodyContent(plug, NoResponse, AsIdentity(orig[s]))
           IN /\ out.enc = "gzip"
              /\ out.text.kind = "object"
              /\ out.text.obj = PlusAbsent(orig[s].Body.avail.text.obj, plug.bodyEnrichments)
              /\ SaysGzip(request[s])
              /\ request[s].ContentLength = ByteLen(out)
              /\ HeaderGet(request[s].Header, "Content-Length") = ToString(ByteLen(out))
              /\ out.text = Readable(plain.request).text

\* C2: whatever fails while the enricher reads, parses or re-serializes the
\* body, HandleRequest returns false and writes nothing to the response writer.
C2_NeverBlocksOnOwnErrors ==
    \A s \in Slots :
        EnricherDone(s) => ret[s] = FALSE /\ ~response[s].written

\* C3: for an identity-encoded application/json request whose body is a JSON
\* object, handed to the enricher unserviced, the body handed on is a JSON object
\* in which every original member keeps its value, every configured member
\* that was absent is present with its configured value, and nothing else
\* appears; a configured member already present is not overwritten.
C3_AbsentOnlyInsertion ==
    \A s \in Slots :
        ( /\ plug.kind = "enricher" /\ pc[s] \in {"done", "panicked"} /\ Unserviced(s)
          /\ IsJSON(orig[s]) /\ IdentityObject(orig[s]) )
        => LET old == orig[s].Body.avail.text.obj
               cfg == plug.bodyEnrichments
               out == Readable(request[s])
           IN /\ pc[s] = "done" /\ ret[s] = FALSE
              /\ out.enc = "identity" /\ out.text.kind = "object"
              /\ \A k \in DOMAIN old : k \in DOMAIN out.text.obj /\ out.text.obj[k] = old[k]
              /\ \A k \in DOMAIN cfg \ DOMAIN old :
                    k \in DOMAIN out.text.obj /\ out.text.obj[k] = cfg[k]
              /\ DOMAIN out.text.obj = DOMAIN old \cup DOMAIN cfg

\* C3, the case: a configured member was present and another absent.
C3_Witness ==
    \E s \in Slots :
        /\ EnricherDone(s) /\ Unserviced(s)
        /\ IsJSON(orig[s]) /\ IdentityObject(orig[s])
        /\ "new-body-key" \in DOMAIN orig[s].Body.avail.text.obj
        /\ "zone" \in DOMAIN plug.bodyEnrichments
        /\ Readable(request[s]).text.obj["new-body-key"] = "client payload"
        /\ Readable(request[s]).text.obj["zone"] = "eu"

\* C4: an application/json request with a non-empty body that is no JSON
\* object (invalid JSON, an array, a scalar, null) leaves the enricher with its
\* body bytes and Content-Length unchanged; the handler does not abort and
\* returns false.
C4_NonObjectLeftAlone ==
    \A s \in Slots :
        ( /\ plug.kind = "enricher" /\ pc[s] \in {"done", "panicked"} /\ Unserviced(s)
          /\ IsJSON(orig[s]) /\ Arrives(orig[s])
          /\ orig[s].Body.avail.enc = "identity"
          /\ orig[s].Body.avail.text.kind \in {"invalid", "array", "null"} )
        => /\ pc[s] = "done"
           /\ ret[s] = FALSE
           /\ ~response[s].written
           /\ Readable(request[s]) = Readable(orig[s])
           /\ request[s].ContentLength = orig[s].ContentLength
           /\ request[s].Header["Content-Length"] = orig[s].Header["Content-Length"]

\* The events of the bundle a request carries: those of its body, decoded as
\* its Content-Encoding header says, when that is a JSON object with a list
\* Evts; none otherwise.
BundleEvts(req) ==
    LET b == req.Body.avail IN
    IF /\ Arrives(req)
       /\ b.enc = (IF SaysGzip(req) THEN "gzip" ELSE "identity")
       /\ b.text.kind = "object"
       /\ b.text.evtsKind = "list"
    THEN b.text.evts
    ELSE <<>>

IsNavigate(e) == e.Kind = 37

\* A navigate event whose Args are a non-empty list of strings.
GoodNavigate(e) == IsNavigate(e) /\ e.Args.kind = "strings" /\ Len(e.Args.list) > 0

GoodNavigates(evts) == SelectSeq(evts, GoodNavigate)

\* Args[0] of each such event, in order.
NavigateUrls(evts) ==
    [i \in 1..Len(GoodNavigates(evts)) |-> GoodNavigates(evts)[i].Args.list[1]]

\* properties.url of each side-effect request, in order.
SentUrls(s) == [i \in 1..Len(sent[s]) |-> sent[s][i].Body.text.obj["properties.url"]]

HasBundlePath(req) ==
    \E i \in 1..Len(req.Path) :
        /\ i + 2 <= Len(req.Path)
        /\ req.Path[i] = "/rec" /\ req.Path[i + 1] = "/bundle" /\ req.Path[i + 2] = "/v2"

FanoutDone(s) == plug.kind = "fanout" /\ pc[s] = "done"

RewriteDone(s) == plug.kind = "rewrite" /\ pc[s] = "done"

\* The rewriting plugin processed the request: it is now a POST to /v1/page.
Rewritten(s) == request[s].Path = <<"/v1", "/page">> /\ request[s].Method = "POST"

\* C5: the plugin of segment_proxy_plugin.go processes a request whenever its
\* path contains /rec/bundle/v2, nested paths included, and ignores every
\* other request.  (Stated of unserviced requests whose bundle holds a navigate
\* event with a url, which processing turns into a POST to /v1/page.)
C5_RewriteMatchesByContains ==
    \A s \in Slots :
        ( /\ RewriteDone(s) /\ Unserviced(s)
          /\ GoodNavigates(BundleEvts(orig[s])) # <<>> )
        => (Rewritten(s) <=> HasBundlePath(orig[s]))

\* C6: for every request the fan-out HandleRequest returns false, writes
\* nothing, and leaves the request as it was: method, path, query, headers,
\* Content-Length and the bytes readable from the body.
C6_FanoutLeavesRequestAlone ==
    \A s \in Slots :
        FanoutDone(s)
        => /\ ret[s] = FALSE
           /\ ~response[s].written
           /\ request[s].Method = orig[s].Method
           /\ request[s].Path = orig[s].Path
           /\ request[s].Scheme = orig[s].Scheme /\ request[s].Host = orig[s].Host
           /\ request[s].UserId = orig[s].UserId /\ request[s].QueryCE = orig[s].QueryCE
           /\ request[s].Header = orig[s].Header
           /\ request[s].ContentLength = orig[s].ContentLength
           /\ Readable(request[s]) = Readable(orig[s])

\* C7: for an unserviced request on a path that contains /rec/bundle/v2 the
\* fan-out plugin issues as many side-effect requests as the bundle has events
\* of Kind 37 whose Args are a non-empty list of strings, one for each in
\* order; events of another Kind, and requests on other paths, cause none.
C7_OnePostPerNavigate ==
    \A s \in Slots :
        /\ (plug.kind = "fanout" /\ pc[s] # "off" /\ Unserviced(s))
           => /\ Len(sent[s]) <= Len(GoodNavigates(BundleEvts(orig[s])))
              /\ ~HasBundlePath(orig[s]) => sent[s] = <<>>
        /\ (FanoutDone(s) /\ Unserviced(s) /\ HasBundlePath(orig[s]))
           => /\ Len(sent[s]) = Len(GoodNavigates(BundleEvts(orig[s])))
              /\ SentUrls(s) = NavigateUrls(BundleEvts(orig[s]))

\* C7, the case: the bundle of the repository's test with three events, two of
\* them navigate events, on a nested path; two requests were issued.
C7_Witness ==
    \E s \in Slots :
        /\ FanoutDone(s) /\ Unserviced(s)
        /\ orig[s].Path = <<"/api", "/v1", "/rec", "/bundle", "/v2", "/data">>
        /\ Len(BundleEvts(orig[s])) = 3
        /\ BundleEvts(orig[s])[2].Kind = 1
        /\ SentUrls(s) = <<"https://example.com", "https://example.org">>

\* C8: every side-effect POST goes to the relay's configured upstream target,
\* path /v1/page, whatever host and scheme the inbound request's URL shows.
C8_SideEffectsGoToTarget ==
    \A s \in Slots :
        \A i \in 1..Len(sent[s]) :
            /\ sent[s][i].Method = "POST"
            /\ sent[s][i].Path = <<"/v1", "/page">>
            /\ sent[s][i].Scheme = RelayTarget.Scheme
            /\ sent[s][i].Host = RelayTarget.Host

Unanswered(s) == \E i \in 1..Len(sent[s]) : sent[s][i].state = "inflight"

\* C9, as claimed: HandleRequest does not wait for a side-effect POST to be
\* answered; with one unanswered it can go on to its next event or return.
C9_DoesNotWait ==
    \A s \in Slots :
        (plug.kind = "fanout" /\ Unanswered(s))
        => ENABLED (FanoutEvent(s) \/ FanoutReturn(s))

\* C9, amended: the errors of the side-effect requests are not propagated, but
\* HandleRequest issues them synchronously: while one is unanswered it waits,
\* and it returns (false, nothing written) only after every side-effect POST
\* it issued has been answered or has failed.
C9_ReturnsAfterEveryAnswer ==
    \A s \in Slots :
        /\ (plug.kind = "fanout" /\ Unanswered(s)) => pc[s] = "await"
        /\ FanoutDone(s)
           => /\ ret[s] = FALSE /\ ~response[s].written
              /\ \A i \in 1..Len(sent[s]) : sent[s][i].state \in {"answered", "failed"}

\* C9, the case: HandleRequest returned after one side-effect POST was
\* answered and another failed.
C9_Witness ==
    \E s \in Slots :
        /\ FanoutDone(s)
        /\ Len(sent[s]) = 2
        /\ sent[s][1].state = "answered"
        /\ sent[s][2].state = "failed"

\* The same request with its gzip signal moved to the Content-Encoding header.
WithHeaderSignal(req) ==
    [req EXCEPT !.Header = [@ EXCEPT !["Content-Encoding"] = <<"gzip">>], !.QueryCE = ""]

\* C10: a gzip bundle body is decoded whether it is signalled by the
\* Content-Encoding: gzip header or by the ContentEncoding=gzip query
\* parameter: the navigate events extracted, and the side-effect requests or
\* the rewrite made from them, are the same under either signal.
C10_EitherGzipSignal ==
    \A s \in Slots :
        ( /\ pc[s] = "done" /\ Unserviced(s)
          /\ Arrives(orig[s]) /\ orig[s].Body.avail.enc = "gzip"
          /\ (SaysGzip(orig[s]) \/ orig[s].QueryCE = "gzip") )
        => /\ (plug.kind = "fanout" /\ HasBundlePath(orig[s]))
              => SentUrls(s) = NavigateUrls(BundleEvts(WithHeaderSignal(orig[s])))
           /\ plug.kind = "rewrite"
              => Readable(request[s]) =
                    Readable(rewriteHandleRequest(NoResponse, WithHeaderSignal(orig[s]),
                                                  info[s]).request)

\* The events the loop of the fan-out HandleRequest has dealt with so far.
EventsDealtWith(s) ==
    SubSeq(local[s].Evts, 1,
           CASE pc[s] = "done" -> Len(local[s].Evts)
             [] pc[s] = "await" -> local[s].idx
             [] OTHER -> local[s].idx - 1)

\* The request is what it was: method, URL, headers, Content-Length and the
\* bytes readable from its body.
SameRequest(s) ==
    /\ request[s].Method = orig[s].Method
    /\ request[s].Path = orig[s].Path
    /\ request[s].Scheme = orig[s].Scheme /\ request[s].Host = orig[s].Host
    /\ request[s].UserId = orig[s].UserId /\ request[s].QueryCE = orig[s].QueryCE
    /\ request[s].Header = orig[s].Header
    /\ request[s].ContentLength = orig[s].ContentLength
    /\ Readable(request[s]) = Readable(orig[s])

\* C11: in the fan-out plugin a failure on one navigate event (Args that are
\* no list of strings, an empty Args list, a failed send) affects that event
\* only: once the loop over Evts runs, every navigate event with a url that
\* the loop has dealt with, before or after a failure, has its side-effect
\* POST, the request stays what it was, and HandleRequest returns false.
C11_FailureHitsOneEvent ==
    \A s \in Slots :
        (plug.kind = "fanout" /\ local[s].idx > 0)
        => /\ local[s].Evts = BundleEvts(orig[s])
           /\ SentUrls(s) = NavigateUrls(EventsDealtWith(s))
           /\ SameRequest(s)
           /\ pc[s] = "done" => ret[s] = FALSE /\ ~response[s].written

\* C11, the case: the first navigate event has Args that do not parse, the
\* send for the second failed, and the third was still sent and answered.
C11_Witness ==
    \E s \in Slots :
        /\ FanoutDone(s)
        /\ Len(BundleEvts(orig[s])) = 3
        /\ IsNavigate(BundleEvts(orig[s])[1])
        /\ BundleEvts(orig[s])[1].Args.kind = "notlist"
        /\ Len(sent[s]) = 2
        /\ sent[s][1].state = "failed"
        /\ sent[s][2].state = "answered"

\* C12: each side-effect request of the fan-out plugin is a POST to /v1/page
\* whose JSON body has writeKey of the bundle, userId of the query parameter
\* UserId, properties.url = Args[0] and name = "track " + Args[0] of its event;
\* it carries every header of the original request but Content-Length, with
\* Content-Type set to application/json, and its content length is the byte
\* length of its body.
C12_SideEffectShape ==
    \A s \in Slots :
        \A i \in 1..Len(sent[s]) :
            LET r == sent[s][i]
                url == NavigateUrls(BundleEvts(orig[s]))[i]
                o == r.Body.text.obj
            IN /\ r.Method = "POST"
               /\ r.Path = <<"/v1", "/page">>
               /\ r.Body.enc = "identity" /\ r.Body.text.kind = "object"
               /\ o["writeKey"] = orig[s].Body.avail.text.obj["writeKey"]
               /\ o["userId"] = orig[s].UserId
               /\ o["properties.url"] = url
               /\ o["name"] = "track " \o url
               /\ \A n \in HeaderNames \ {"Content-Length", "Content-Type"} :
                     r.Header[n] = orig[s].Header[n]
               /\ r.Header["Content-Length"] = <<>>
               /\ r.Header["Content-Type"] = <<"application/json">>
               /\ r.ContentLength = ByteLen(r.Body)

\* C12, the case: the original request had a Content-Length, another
\* Content-Type and Content-Encoding: gzip, and a side-effect request was made
\* from its second navigate event.
C12_Witness ==
    \E s \in Slots :
        /\ Len(sent[s]) = 2
        /\ orig[s].Header["Content-Length"] # <<>>
        /\ orig[s].Header["Content-Type"] = <<"text/plain">>
        /\ orig[s].Header["Content-Encoding"] = <<"gzip">>
        /\ sent[s][2].Header["Content-Encoding"] = <<"gzip">>
        /\ sent[s][2].Body.text.obj["name"] = "track https://example.org"

Navigates(evts) == SelectSeq(evts, IsNavigate)

\* The body is the page payload made for the url.
IsPagePayload(b, writeKey, userId, url) ==
    /\ b.enc = "identity" /\ b.text.kind = "object"
    /\ DOMAIN b.text.obj = {"writeKey", "userId", "timestamp", "properties.url", "name"}
    /\ b.text.obj["writeKey"] = writeKey
    /\ b.text.obj["userId"] = userId
    /\ b.text.obj["properties.url"] = url
    /\ b.text.obj["name"] = "track " \o url

\* C13: the plugin of segment_proxy_plugin.go turns an unserviced request on
\* /rec/bundle/v2 whose bundle has a Kind-37 event with a non-empty list of
\* strings as Args into a POST to /v1/page whose body is the page payload
\* (writeKey of the bundle, userId of the query, url and name from Args[0] of
\* such an event); with no Kind-37 event in the bundle, or on another path,
\* path and method stay as they were; it returns false in every case.
C13_RewriteToPage ==
    \A s \in Slots :
        (RewriteDone(s) /\ Unserviced(s))
        => LET evts == BundleEvts(orig[s])
               urls == NavigateUrls(evts)
           IN /\ ret[s] = FALSE
              /\ (orig[s].Path = <<"/rec", "/bundle", "/v2">> /\ urls # <<>>)
                 => /\ Rewritten(s)
                    /\ \E i \in 1..Len(urls) :
                          IsPagePayload(Readable(request[s]),
                                        orig[s].Body.avail.text.obj["writeKey"],
                                        orig[s].UserId, urls[i])
              /\ (orig[s].Path # <<"/rec", "/bundle", "/v2">> \/ Navigates(evts) = <<>>)
                 => /\ request[s].Path = orig[s].Path
                    /\ request[s].Method = orig[s].Method

\* C14: a HandleRequest called with info.Serviced = true, of the content
\* enricher or of either segment proxy, returns false at once: it writes
\* nothing to the response writer, leaves the request as it is (headers, URL,
\* method, body and the body reader itself, from which it reads nothing) and
\* issues no side-effect request.
C14_ServicedIsNoOp ==
    \A s \in Slots :
        (pc[s] # "off" /\ info[s].Serviced)
        => /\ pc[s] \in {"ready", "done"}
           /\ request[s] = orig[s]
           /\ response[s] = NoResponse
           /\ sent[s] = <<>>
           /\ pc[s] = "done" => ret[s] = FALSE

\* C14, the case: the fan-out plugin has returned from a serviced request on
\* the bundle path whose bundle has a navigate event with a url.
C14_Witness ==
    \E s \in Slots :
        /\ FanoutDone(s) /\ info[s].Serviced
        /\ HasBundlePath(orig[s])
        /\ GoodNavigates(BundleEvts(orig[s])) # <<>>

\* The three lengths of a request agree: the ContentLength field, the
\* Content-Length header and the number of bytes readable from the body.
LengthsAgree(req) ==
    /\ req.ContentLength = ByteLen(Readable(req))
    /\ req.Header["Content-Length"] = <<ToString(ByteLen(Readable(req)))>>

\* The enricher has a body to replace: it is not serviced, has body
\* enrichments, and the request is application/json with a JSON object that
\* arrived whole.
HasBodyToEnrich(s) ==
    /\ Unserviced(s)
    /\ DOMAIN plug.bodyEnrichments # {}
    /\ IsJSON(orig[s]) /\ Arrives(orig[s])
    /\ orig[s].Body.avail.enc = "identity"
    /\ orig[s].Body.avail.text.kind = "object"

\* C15: after the enricher has handled a request the ContentLength field,
\* the Content-Length header and the bytes readable from the body agree: where
\* it replaces the body all three are the new body's length; on every other
\* path the bytes readable are the original bytes and both lengths are
\* untouched, so that a request whose lengths agreed leaves with lengths that
\* agree.
C15_LengthsAgree ==
    \A s \in Slots :
        (plug.kind = "enricher" /\ pc[s] \in {"done", "panicked"})
        => /\ HasBodyToEnrich(s) => LengthsAgree(request[s])
           /\ ~HasBodyToEnrich(s)
              => /\ Readable(request[s]) = Readable(orig[s])
                 /\ request[s].ContentLength = orig[s].ContentLength
                 /\ request[s].Header["Content-Length"] = orig[s].Header["Content-Length"]
           /\ LengthsAgree(orig[s]) => LengthsAgree(request[s])

\* C15, the case: the enricher replaced a body by a longer one.
C15_Witness ==
    \E s \in Slots :
        /\ EnricherDone(s) /\ HasBodyToEnrich(s)
        /\ ByteLen(Readable(request[s])) > ByteLen(Readable(orig[s]))
        /\ LengthsAgree(request[s])

\* The names of the configured headers as the request carries them.
ConfiguredHeaders == {CanonicalMIMEHeaderKey(k) : k \in DOMAIN plug.headerEnrichments}

\* C16: HandleRequest of the enricher applied twice in succession to a
\* request gives what one application gives: the same body bytes, the same
\* Content-Length (field and header) and the same values of the configured
\* headers.
C16_TwiceIsOnce ==
    \A s \in Slots :
        (plug.kind = "enricher" /\ pc[s] \in {"done", "panicked"} /\ Len(calls[s]) = 1)
        => LET once == calls[s][1] IN
           /\ pc[s] = "done"
           /\ Readable(request[s]) = Readable(once)
           /\ request[s].ContentLength = once.ContentLength
           /\ request[s].Header["Content-Length"] = once.Header["Content-Length"]
           /\ \A n \in ConfiguredHeaders : request[s].Header[n] = once.Header[n]

\* C17: whenever an enricher with a body or header enrichment hands a request
\* on, the first value of its X-Relay-Content-Enricher-Version header is the
\* relay's release string, whatever headers the client sent.
C17_VersionHeaderIsRelease ==
    \A s \in Slots :
        (EnricherDone(s) /\ Unserviced(s) /\ ret[s] = FALSE)
        => HeaderGet(request[s].Header, "X-Relay-Content-Enricher-Version") = "v0.3.1"

\* The relay is done with the request.
RelayOver == relay.stage \notin {"off", "pipeline"}

\* The request that left the pipeline, and the one the upstream received.
AfterPipeline == request["r1"]

AtUpstream == relay.upstream[1].request

\* C18: the pipeline calls every loaded plugin exactly once per request, in
\* registration order; the serviced flag is false for the first plugin, true
\* for every plugin after one that returned true, and never false again; and
\* a request whose flag is true after the last plugin is neither forwarded nor
\* tunnelled.
C18_PipelineCallsEveryPlugin ==
    /\ \A i \in 1..Len(relay.infos) :
          /\ relay.infos[i].plugin = i
          /\ relay.infos[i].serviced = (\E j \in 1..(i - 1) : relay.infos[j].returned)
    /\ relay.serviced = (\E j \in 1..Len(relay.infos) : relay.infos[j].returned)
    /\ RelayOver => Len(relay.infos) = Len(relay.plugins)
    /\ (RelayOver /\ relay.serviced) => relay.upstream = <<>>

RelayHeaderValue(n) ==
    CASE n = "X-Forwarded-For" -> relay.client.IP
      [] n = "X-Forwarded-Port" -> relay.client.Port
      [] n = "X-Forwarded-Proto" -> (IF orig["r1"].TLS THEN "https" ELSE "http")
      [] OTHER -> "v0.3.1"

RelayHeaderNames ==
    {"X-Forwarded-For", "X-Forwarded-Port", "X-Forwarded-Proto", "X-Relay-Version"}

BlockedUpgrade ==
    /\ \E i \in 1..Len(relay.plugins) : relay.plugins[i].kind = "blocker"
    /\ orig[RelaySlot].Header["Upgrade"] # <<>>

\* C21: when the content blocker is active and the request carries an Upgrade
\* header, the request is answered with status 500 and marked serviced, and
\* it reaches neither the WebSocket tunnel nor the upstream, wherever the
\* content blocker stands among the plugins.
C21_UpgradeIsBlocked ==
    (RelayOver /\ BlockedUpgrade) =>
        /\ relay.stage = "serviced"
        /\ relay.serviced
        /\ response[RelaySlot].status = StatusInternalServerError
        /\ relay.upstream = <<>>

\* The request with an Upgrade header that ends without an answer: a plugin
\* ahead of the content blocker has panicked.
C21_Unanswered ==
    /\ RelayOver /\ BlockedUpgrade
    /\ relay.stage = "aborted"
    /\ response[RelaySlot] = NoResponse

\* Whatever happens, the request with an Upgrade header is neither tunnelled
\* nor forwarded when the content blocker is active.
C21_NeverTunnelled ==
    (RelayOver /\ BlockedUpgrade) => (relay.upstream = <<>> /\ relay.stage \in {"serviced", "aborted"})

\* ------------------------------------------------------------------- C22

\* The content blocker has handled the request of slot s.
BlockerDone(s) == plug.kind = "blocker" /\ pc[s] = "done"

\* The content blocker has handled the request of slot s and left it to be
\* forwarded.
BlockerPassed(s) ==
    /\ BlockerDone(s)
    /\ ~info[s].Serviced
    /\ orig[s].Header["Upgrade"] = <<>>
    /\ ~ret[s]

\* The content blocker had a body to rewrite in slot s.
BlockerTookBody(s) ==
    /\ BlockerPassed(s)
    /\ plug.bodyRules # <<>>
    /\ orig[s].Header["Content-Type"] = <<"application/json">>
    /\ orig[s].Body.state = "stream"

\* Some rule of the kind matches the piece.
MatchedBy(rules, kind, piece) ==
    \E i \in 1..Len(rules) : rules[i].kind = kind /\ piece \in rules[i].pattern

\* An exclude rule and a mask rule of the list match the same piece of the text.
Contested(rules, text) ==
    \E k \in 1..Len(Pieces(text)) :
        /\ MatchedBy(rules, "exclude", Pieces(text)[k])
        /\ MatchedBy(rules, "mask", Pieces(text)[k])

\* The text with every piece that an exclude rule matches removed, and the
\* other pieces as they are.
ExcludedForm(rules, text) ==
    Join([k \in 1..Len(Pieces(text)) |->
            IF MatchedBy(rules, "exclude", Pieces(text)[k]) THEN "" ELSE Pieces(text)[k]])

\* The text with every piece that a mask rule matches masked, and the other
\* pieces as they are.
MaskedForm(rules, text) ==
    Join([k \in 1..Len(Pieces(text)) |->
            IF MatchedBy(rules, "mask", Pieces(text)[k])
            THEN Stars(Len(Pieces(text)[k])) ELSE Pieces(text)[k]])

\* The header values and the body member values a rule list was applied to,
\* as pairs of the text before and the text after.
BlockedHeaderTexts(s) ==
    UNION {{<<orig[s].Header[n][i], request[s].Header[n][i]>> : i \in 1..Len(orig[s].Header[n])} :
              n \in HeaderNames \ {"Content-Length", "X-Relay-Content-Blocker-Version"}}

BlockedBodyTexts(s) ==
    {<<orig[s].Body.avail.text.obj[k], request[s].Body.avail.text.obj[k]>> :
        k \in DOMAIN orig[s].Body.avail.text.obj}

BlockedForm(rules, text) ==
    Join([k \in 1..Len(Pieces(text)) |->
            IF MatchedBy(rules, "exclude", Pieces(text)[k]) THEN ""
            ELSE IF MatchedBy(rules, "mask", Pieces(text)[k])
                 THEN Stars(Len(Pieces(text)[k]))
                 ELSE Pieces(text)[k]])

\* C23: for identity and for gzip bodies the content blocker replaces each
\* exclude match by the empty string and each mask match by as many '*' as the
\* match is long, in the header values (the header names stay) and in the
\* decoded body; the request it leaves keeps its Content-Encoding, its body is
\* encoded as it arrived, and its Content-Length is the byte length of that
\* body.
C23_BlockedContent ==
    \A s \in Slots :
        /\ BlockerPassed(s) =>
              /\ \A n \in HeaderNames \ {"Content-Length", "X-Relay-Content-Blocker-Version"} :
                    /\ Len(request[s].Header[n]) = Len(orig[s].Header[n])
                    /\ \A i \in 1..Len(orig[s].Header[n]) :
                          request[s].Header[n][i] = BlockedForm(plug.headerRules, orig[s].Header[n][i])
              /\ request[s].Header["Content-Encoding"] = orig[s].Header["Content-Encoding"]
        /\ BlockerTookBody(s) =>
              /\ orig[s].Body.avail.enc \in {"identity", "gzip"}
              /\ request[s].Body.state = "stream"
              /\ request[s].Body.avail.enc = orig[s].Body.avail.enc
              /\ SaysGzip(request[s]) <=> request[s].Body.avail.enc = "gzip"
              /\ request[s].Body.avail.text =
                    [orig[s].Body.avail.text EXCEPT
                        !.obj = [k \in DOMAIN @ |-> BlockedForm(plug.bodyRules, @[k])]]
              /\ LengthsAgree(request[s])

\* A gzip body with an excluded address, shorter than it came, under a header
\* whose address is masked.
C23_Witness ==
    /\ BlockerTookBody("r1")
    /\ orig["r1"].Body.avail.enc = "gzip"
    /\ request["r1"].Body.avail.text.obj["content"] = "Excluded IP address = ."
    /\ request["r1"].ContentLength < orig["r1"].ContentLength
    /\ request["r1"].Header["X-Forwarded-For"] = <<"foo.com,***********,bar.com">>

\* ------------------------------------------------------------------- C24

\* The cookies plugin has handled the request of slot s, which was not
\* serviced.
CookiesDone(s) == plug.kind = "cookies" /\ pc[s] = "done" /\ ~info[s].Serviced

\* The allowed names, read off the configuration.
AllowedNames ==
    Range(plug.allowlist)
    \cup (CASE plug.TRAFFIC_RELAY_COOKIES = "SPECIAL_ID _gat" -> {"SPECIAL_ID", "_gat"}
            [] plug.TRAFFIC_RELAY_COOKIES = "_gat" -> {"_gat"}
            [] OTHER -> {})

\* The cookies the client sent, header after header.
InboundCookies(s) == Concat([i \in 1..Len(orig[s].Header["Cookie"]) |->
                                ParseCookies(orig[s].Header["Cookie"][i])])

AllowedCookie(c) == c.Name \in AllowedNames

\* The cookies of a merged Cookie header.
MergedCookies(v) ==
    CHOOSE cs \in {a \o b : a \in CookieLists, b \in CookieLists} : FormatCookies(cs) = v

\* How often the cookie occurs in the list.
Occurrences(cs, c) == Cardinality({i \in 1..Len(cs) : cs[i] = c})

C24_DefaultDrop ==
    \A s \in Slots :
        (CookiesDone(s) /\ plug.allowlist = <<>> /\ plug.TRAFFIC_RELAY_COOKIES = "")
            => request[s].Header["Cookie"] = <<>>

\* ------------------------------------------------------------------- C25

\* What the one-call handlers give for the request of slot s handled alone.
AloneOutcomes(s) ==
    IF plug.kind = "enricher"
    THEN {enricherHandleRequest(plug, NoResponse, orig[s], info[s], order) :
             order \in Orders(DOMAIN plug.headerEnrichments)}
    ELSE {rewriteHandleRequest(NoResponse, orig[s], info[s])}

\* The fan-out of slot s has done, so far, what it does for the request
\* handled alone: the request with its body read, and one POST built from
\* that request for each navigate event it has come to, in order.
FanoutAsAlone(s) ==
    LET cb == fanoutContentBytes(orig[s])
        segmentData == UnmarshalSegmentData(cb.contentBytes)
        urls == NavigateUrls(segmentData.Evts)
    IN /\ response[s] = NoResponse
       /\ ~ret[s]
       /\ pc[s] = "ready" => (request[s] = orig[s] /\ sent[s] = <<>>)
       /\ pc[s] # "ready" =>
             /\ request[s] = cb.request
             /\ Len(sent[s]) <= Len(urls)
             /\ pc[s] = "done" => Len(sent[s]) = Len(urls)
             /\ \A i \in 1..Len(sent[s]) :
                   /\ [sent[s][i] EXCEPT !.state = "inflight"] =
                          proxyRequest(cb.request, segmentData.WriteKey, orig[s].UserId, urls[i])
                   /\ (i < Len(sent[s]) \/ pc[s] = "done")
                          => sent[s][i].state \in {"answered", "failed"}

\* Each request has, whatever the other request is doing, the headers, body,
\* response and result that handling it alone gives.
C25_AsAlone ==
    \A s \in Slots :
        /\ (plug.kind \in {"enricher", "rewrite"} /\ pc[s] = "ready")
               => (request[s] = orig[s] /\ response[s] = NoResponse /\ sent[s] = <<>>)
        /\ (plug.kind \in {"enricher", "rewrite"} /\ pc[s] \in {"done", "panicked"})
               => \E o \in AloneOutcomes(s) :
                     /\ request[s] = o.request
                     /\ response[s] = o.response
                     /\ ret[s] = o.serviced
                     /\ (pc[s] = "panicked") = o.panic
                     /\ sent[s] = <<>>
        /\ plug.kind = "fanout" => FanoutAsAlone(s)

\* C25: requests handled in parallel do not interfere: in any interleaving of
\* two requests handled by the same content-enricher or segment-proxy
\* instance, each request's headers, body and serviced result are those of
\* handling it alone, and no step of the handling writes the plugin's fields.
C25_NoInterference == [](C25_AsAlone) /\ [][plug' = plug]_vars

\* Two different requests are in flight in the fan-out at once: one has
\* returned after its POSTs while the other awaits the answer to its own.
C25_Witness ==
    /\ plug.kind = "fanout"
    /\ orig["r1"] # orig["r2"]
    /\ pc["r1"] = "done" /\ sent["r1"] # <<>>
    /\ pc["r2"] = "await"
    /\ SentUrls("r1") # SentUrls("r2")

\* The enricher has handled one of two different requests while the other
\* has not been handled yet.
C25_WitnessEnricher ==
    /\ plug.kind = "enricher"
    /\ orig["r1"].Body # orig["r2"].Body
    /\ pc["r1"] = "ready" /\ pc["r2"] = "done"
    /\ request["r2"].Body # orig["r2"].Body

\* ------------------------------------------------------------------- C26

\* Path, method, body and Content-Length of slot s are the client's (a body
\* whose read fails stays the client's failing reader).
AllOriginal(s) ==
    /\ request[s].Path = orig[s].Path
    /\ request[s].Method = orig[s].Method
    /\ orig[s].Body.fail \/ Readable(request[s]) = Readable(orig[s])
    /\ request[s].ContentLength = orig[s].ContentLength
    /\ request[s].Header["Content-Length"] = orig[s].Header["Content-Length"]

\* The request of slot s is a POST to /v1/page with a page payload as long as
\* its Content-Length says.
AllRewritten(s) ==
    /\ Rewritten(s)
    /\ Readable(request[s]).enc = "identity"
    /\ Readable(request[s]).text.kind = "object"
    /\ DOMAIN Readable(request[s]).text.obj =
           {"writeKey", "userId", "timestamp", "properties.url", "name"}
    /\ LengthsAgree(request[s])

\* C26: the rewrite of segment_proxy_plugin.go is all-or-nothing: after
\* HandleRequest either path, method, body and Content-Length are all the
\* client's, or the path is /v1/page, the method POST and the body a page
\* payload whose length is the Content-Length; never the new path and method
\* over the bundle body.
C26_AllOrNothing ==
    \A s \in Slots : RewriteDone(s) => (AllOriginal(s) \/ AllRewritten(s))

\* The half-rewritten request: a POST to /v1/page that still carries the
\* bundle, after a Kind-37 event whose Args are empty or not a list of
\* strings.
C26_HalfRewritten ==
    \E s \in Slots :
        /\ RewriteDone(s)
        /\ Rewritten(s)
        /\ Readable(request[s]) = Readable(orig[s])
        /\ Navigates(BundleEvts(orig[s])) # <<>>
        /\ ~GoodNavigate(Navigates(BundleEvts(orig[s]))[1])

\* ------------------------------------------------------------------- C27

\* The client's request arrives whole and says gzip only of gzip bytes.
ArrivesConsistent(s) ==
    /\ Arrives(orig[s])
    /\ SaysGzip(orig[s]) => Readable(orig[s]).enc = "gzip"

\* The side-effect request says gzip only of gzip bytes.
SentConsistent(r) == (HeaderGet(r.Header, "Content-Encoding") = "gzip") => r.Body.enc = "gzip"

\* C27: after either segment proxy has handled a request, the request it
\* leaves and every side-effect POST it sends carry Content-Encoding: gzip
\* only if their body bytes are gzip-encoded, also when the bundle came
\* gzip-encoded and the new body is the uncompressed page payload.
C27_EncodingConsistent ==
    \A s \in Slots :
        (plug.kind \in {"rewrite", "fanout"} /\ ArrivesConsistent(s)) =>
            /\ pc[s] = "done" => (SaysGzip(request[s]) => Readable(request[s]).enc = "gzip")
            /\ \A i \in 1..Len(sent[s]) : SentConsistent(sent[s][i])

\* A gzip bundle rewritten in flight: the uncompressed page payload under the
\* bundle's Content-Encoding: gzip.
C27_RewrittenPlainUnderGzip ==
    \E s \in Slots :
        /\ RewriteDone(s) /\ ArrivesConsistent(s)
        /\ Readable(orig[s]).enc = "gzip"
        /\ AllRewritten(s)
        /\ SaysGzip(request[s])

\* A side-effect POST of a gzip bundle: the uncompressed page payload under
\* the copied Content-Encoding: gzip.
C27_SentPlainUnderGzip ==
    \E s \in Slots :
        /\ plug.kind = "fanout" /\ ArrivesConsistent(s)
        /\ Readable(orig[s]).enc = "gzip"
        /\ sent[s] # <<>>
        /\ ~SentConsistent(sent[s][1])

\* ------------------------------------------------------------------- C28

\* The side-effect POSTs of slot s so far are those of the first navigate
\* events of the bundle, in the order of Evts, and only the last of them can
\* be awaiting its answer; none is once HandleRequest has returned.
OneAtATime(s) ==
    /\ Len(sent[s]) <= Len(NavigateUrls(BundleEvts(orig[s])))
    /\ SentUrls(s) = SubSeq(NavigateUrls(BundleEvts(orig[s])), 1, Len(sent[s]))
    /\ \A i \in 1..Len(sent[s]) :
          sent[s][i].state = "inflight" => (i = Len(sent[s]) /\ pc[s] = "await")
    /\ pc[s] = "done" => ~Unanswered(s)

\* A step starts at most one POST for a request, and none while an earlier
\* POST of that request has not completed or failed.
StartsInTurn(s) ==
    Len(sent'[s]) # Len(sent[s]) =>
        /\ Len(sent'[s]) = Len(sent[s]) + 1
        /\ ~Unanswered(s)
        /\ SubSeq(sent'[s], 1, Len(sent[s])) = sent[s]

\* C28: the fan-out issues the side-effect POSTs of one request one at a time
\* in the order of Evts: a later POST is not started before every earlier one
\* has completed or failed, and HandleRequest returns only after the last has.
C28_PostsInSequence ==
    /\ [](\A s \in Slots : plug.kind = "fanout" => OneAtATime(s))
    /\ [][\A s \in Slots : plug.kind = "fanout" => StartsInTurn(s)]_vars

\* The third POST of a request awaits its answer after the first was answered
\* and the second failed.
C28_Witness ==
    \E s \in Slots :
        /\ plug.kind = "fanout" /\ pc[s] = "await"
        /\ Len(sent[s]) = 3
        /\ sent[s][1].state = "answered"
        /\ sent[s][2].state = "failed"
        /\ sent[s][3].state = "inflight"
        /\ SentUrls(s) = <<"https://example.com", "https://example.org", "https://example.com">>

\* ------------------------------------------------------------------- C29

\* Two configured header names are the same name but for the case of their
\* letters.
NamesCollide ==
    \E a, b \in DOMAIN plug.headerEnrichments :
        a # b /\ CanonicalMIMEHeaderKey(a) = CanonicalMIMEHeaderKey(b)

\* C29: the enricher's output is a function of its configuration and of the
\* request: every run of HandleRequest on the request gives the headers and
\* the body bytes that this run has given, also with several configured body
\* keys absent and with two configured header names that differ by letter
\* case only.
C29_Deterministic ==
    \A s \in Slots :
        (EnricherDone(s) /\ calls[s] = <<>>) =>
            \A order \in Orders(DOMAIN plug.headerEnrichments) :
                LET o == enricherHandleRequest(plug, NoResponse, orig[s], info[s], order)
                IN /\ o.request.Header = request[s].Header
                   /\ Readable(o.request) = Readable(request[s])

\* Two runs on one request that end with different values of the header: the
\* configured names differ by letter case only and the order of the map's
\* iteration decides which value stays.
C29_TwoOutcomes ==
    \E s \in Slots :
        /\ EnricherDone(s) /\ calls[s] = <<>> /\ Unserviced(s)
        /\ NamesCollide
        /\ \E order \in Orders(DOMAIN plug.headerEnrichments) :
              enricherHandleRequest(plug, NoResponse, orig[s], info[s], order).request.Header
                  # request[s].Header

\* Apart from such names the output is the same in every run, whatever body
\* keys are absent.
C29_DeterministicOtherwise ==
    \A s \in Slots :
        (EnricherDone(s) /\ calls[s] = <<>> /\ ~NamesCollide) =>
            \A order \in Orders(DOMAIN plug.headerEnrichments) :
                LET o == enricherHandleRequest(plug, NoResponse, orig[s], info[s], order)
                IN /\ o.request = request[s]
                   /\ o.response = response[s]
                   /\ o.serviced = ret[s]

====
